---- MODULE Spec2Model ----
(***************************************************************************)
(* Rolling restart of a CrateDB cluster (rr/state_machines.py,             *)
(* rr/activities.py).                                                       *)
(*                                                                         *)
(* One ClusterRestartStateMachine run over one cluster, the                *)
(* PodRestartStateMachine child it starts per pod, the                     *)
(* MaintenanceWindowStateMachine child in front of it, and the operator's  *)
(* signals.  Every action runs one workflow from the completion of the     *)
(* thing it awaits to its next await: signals are delivered only between   *)
(* such steps, as the workflow engine delivers them.                       *)
(***************************************************************************)
EXTENDS Integers, Sequences, FiniteSets, TLC

\* Number of pods of the cluster under restart.
NPods == 3

\* Pod names, by position in the StatefulSet; cluster.pods lists each once.
Pods == 1..NPods
NoPod == 0

HealthSymbols == {"GREEN", "YELLOW", "RED", "UNKNOWN", "UNREACHABLE"}

\* Cluster names: one that has nothing of a health symbol in it, and one in
\* which the letters RED occur.
ClusterNames == {"crate1", "REDWOOD"}
Reasons == {"emergency"}
NoReason == ""
NoError == ""
NoRecord == [returned |-> FALSE]

Range(seq) == {seq[k] : k \in DOMAIN seq}
NoDuplicates(seq) == \A j, k \in DOMAIN seq : seq[j] = seq[k] => j = k
IsPrefix(a, b) == Len(a) <= Len(b) /\ \A k \in DOMAIN a : a[k] = b[k]

\* Texts are sets of fragments; word occurs in the text (Python's "in" on
\* str) when it occurs in one of the fragments.
OccursIn(word, fragment) ==
    \/ fragment = word
    \/ <<word, fragment>> \in {<<"RED", "REDWOOD">>}

in_str(word, text) == \E fragment \in text : OccursIn(word, fragment)

NoText == {}

\* RetryPolicy.maximum_attempts of StateMachineConfig and of RESET_ROUTING.
MaxAttemptsDecommission == 3
MaxAttemptsDecommissionDcUtil == 2
MaxAttemptsPodOperations == 5
MaxAttemptsApiCalls == 3
MaxAttemptsMaintenanceCheck == 3
MaxAttemptsRoutingReset == 2
MaxAttemptsHealthCheck == 30

\* The five statements of the manual decommission.
NumSqlCommands == 5

VARIABLES
    cluster,      \* CrateDBCluster: pods, has_dc_util, suspended
    options,      \* RestartOptions
    crsm,         \* the ClusterRestartStateMachine instance: fields and run() locals
    record,       \* the dict run() returned, NoRecord before
    pod,          \* pod -> its PodRestartStateMachine instance
    gate,         \* the MaintenanceWindowStateMachine child
    routing,      \* the database's cluster.routing.allocation.enable
    hc,           \* a HealthCheckStateMachine instance (a Health-Gate run)
    multi,        \* a MultiClusterRestartWorkflow instance
    dp,           \* an invocation of delete_pod or of the legacy restart_pod
    md,           \* an invocation of _execute_manual_decommission
    wr,           \* an invocation of wait_for_pod_ready
    rs,           \* an invocation of _reset_cluster_routing_allocation
    kp,           \* the DELETE and WAIT_READY states of one pod restart and the
                  \* Kubernetes pod object of that name
    mw,           \* an invocation of check_maintenance_window
    lw            \* a ClusterRestartWorkflow instance, the child of the
                  \* MultiClusterRestartWorkflow

vars == <<cluster, options, crsm, record, pod, gate, routing, hc, multi, dp, md, wr,
          rs, kp, mw, lw>>

\* The variables of one cluster restart, and those of the workflows and
\* activities that are modelled by themselves.
main == <<cluster, options, crsm, record, pod, gate, routing>>
\* The leaf operations added to them.
leaf == <<rs, kp, mw, lw>>
standalone == <<multi, dp, md, wr, leaf>>

----------------------------------------------------------------------------
(* StateMachineConfig *)

get_standard_retry_policy(operation_type) ==
    CASE operation_type = "health_check" -> MaxAttemptsHealthCheck
      [] operation_type = "decommission" -> MaxAttemptsDecommission
      [] operation_type = "pod_operations" -> MaxAttemptsPodOperations
      [] operation_type = "api_calls" -> MaxAttemptsApiCalls
      [] operation_type = "maintenance_check" -> MaxAttemptsMaintenanceCheck
      [] OTHER -> 3

\* initial_interval, maximum_interval (seconds) and backoff_coefficient of
\* the health_check policy.
InitialIntervalHealthCheck == 5
MaximumIntervalHealthCheck == 30
BackoffCoefficient == 2

\* min(initial_interval * backoff_coefficient ^ (attempt - 1),
\* maximum_interval), in seconds
RECURSIVE Backoff(_)
Backoff(attempt) ==
    IF attempt <= 1 THEN InitialIntervalHealthCheck
    ELSE LET grown == Backoff(attempt - 1) * BackoffCoefficient
         IN  IF grown < MaximumIntervalHealthCheck THEN grown
             ELSE MaximumIntervalHealthCheck

\* Variant of the wait below with a jitter of
\* 0.1 + (attempt mod 10) * 0.02 times the delay added to it.
retry_interval_Jittered(attempt) ==
    Backoff(attempt) * (100 + 10 + ((attempt % 10) * 2))

\* The wait the health_check policy puts between the attempt of this number
\* and the next one, in hundredths of a second: the policy has no other
\* term than the capped exponential delay.
retry_interval(attempt) == Backoff(attempt) * 100

\* maximum_attempts of the configuration execute_activity gets.
create_activity_config(operation_type, c) ==
    IF operation_type = "decommission" /\ c.has_dc_util
    THEN MaxAttemptsDecommissionDcUtil
    ELSE get_standard_retry_policy(operation_type)

----------------------------------------------------------------------------
(* Activities, as functions of what they read *)

\* validate_cluster: is_valid
validate_cluster_Strict(c) == ~c.suspended /\ c.health = "GREEN"
validate_cluster(c) == ~c.suspended

\* The cluster descriptor as validate_cluster reads it.
Descriptor(c, health, has_prestop_hook) ==
    [suspended |-> c.suspended, has_dc_util |-> c.has_dc_util,
     health |-> health, has_prestop_hook |-> has_prestop_hook]

Descriptors ==
    [suspended : BOOLEAN, has_dc_util : BOOLEAN,
     health : HealthSymbols, has_prestop_hook : BOOLEAN]

\* validate_cluster: the errors list.
validation_errors(c) == IF c.suspended THEN {"suspended"} ELSE {}

\* validate_cluster: the warnings list.
validation_warnings(c, skip_hook_warning) ==
    (IF c.health # "GREEN" THEN {"health"} ELSE {})
      \cup (IF skip_hook_warning THEN {}
            ELSE IF ~c.has_prestop_hook THEN {"no_prestop_hook"}
            ELSE IF ~c.has_dc_util THEN {"no_dc_util"}
            ELSE {})

\* validate_cluster: the ClusterValidationResult it returns.
ClusterValidationResult(c, skip_hook_warning) ==
    [is_valid |-> validate_cluster(c),
     warnings |-> validation_warnings(c, skip_hook_warning),
     errors |-> validation_errors(c)]

\* Variant of the activity that also returns for YELLOW.
check_cluster_health_Lenient(dry_run, health) ==
    dry_run \/ health \in {"GREEN", "YELLOW"}

\* check_cluster_health returns only for GREEN (always in dry-run) and raises
\* for every other symbol: TRUE iff it returns.
check_cluster_health(dry_run, health) == dry_run \/ health = "GREEN"

\* What a health read can observe.
Observable(dry_run) == IF dry_run THEN {"GREEN"} ELSE HealthSymbols

----------------------------------------------------------------------------
(* HealthCheckStateMachine *)

NoResult == [health_status |-> "NONE", is_healthy |-> FALSE]

NewHealthCheck ==
    [pc |-> "CHECK",                  \* check_cluster_health is scheduled
     attempt |-> 1,                   \* attempt of the activity
     observed |-> "NONE",             \* what the last attempt observed
     raised |-> 0,                    \* attempts that raised
     waits |-> <<>>,                  \* the waits between the attempts so far
     result |-> NoResult,             \* the HealthCheckResult returned
     error_status |-> "NONE"]         \* health_status of the exception raised

\* What an attempt of check_cluster_health can meet: a health symbol in the
\* CRD, or an API error.
Observations(dry_run) ==
    IF dry_run THEN {"GREEN"} ELSE HealthSymbols \cup {"ERROR"}

\* The HealthCheckResult of an attempt that returns.
HealthCheckResult(dry_run, health) ==
    [health_status |-> IF dry_run THEN "GREEN" ELSE health, is_healthy |-> TRUE]

\* The attempt returns its result; run() returns it if it is GREEN and
\* raises otherwise.
HealthCheckReturns ==
    /\ hc.pc = "CHECK"
    /\ \E obs \in Observations(options.dry_run) \ {"ERROR"} :
         /\ check_cluster_health(options.dry_run, obs)
         /\ LET health_result == HealthCheckResult(options.dry_run, obs)
            IN  hc' = IF health_result.health_status = "GREEN"
                      THEN [hc EXCEPT !.pc = "RETURNED", !.observed = obs,
                                      !.result = health_result]
                      ELSE [hc EXCEPT !.pc = "FAILED", !.observed = obs,
                                      !.error_status = "UNKNOWN"]
    /\ UNCHANGED <<standalone, main>>

\* The attempt raises (not GREEN, API error): the health_check policy
\* retries it, and after its last attempt run() raises
\* HealthNotGreenException("UNKNOWN", ...).
HealthCheckRaises ==
    /\ hc.pc = "CHECK"
    /\ \E obs \in Observations(options.dry_run) :
         /\ obs = "ERROR" \/ ~check_cluster_health(options.dry_run, obs)
         /\ hc' = IF hc.attempt >= get_standard_retry_policy("health_check")
                  THEN [hc EXCEPT !.pc = "FAILED", !.observed = obs,
                                  !.raised = @ + 1, !.error_status = "UNKNOWN"]
                  ELSE [hc EXCEPT !.attempt = @ + 1, !.observed = obs,
                                  !.raised = @ + 1,
                                  !.waits = Append(@, retry_interval(hc.attempt))]
    /\ UNCHANGED <<standalone, main>>

\* str() of the exception the last check_cluster_health attempt raised.
ActivityErrorText(name, obs) ==
    IF obs = "ERROR"
    THEN {"API error checking health of cluster ", name}
    ELSE {"Cluster ", name, " health is ", obs, ", expected GREEN"}

\* The message of the HealthNotGreenException run() raises: error_msg.  The
\* activity's error reaches run() wrapped by the workflow library, whose
\* str() shows the activity's message or only the library's own.
HealthGateErrorText(name, obs, shows_activity) ==
    {"Health check failed for cluster ", name, ": "}
        \cup (IF shows_activity THEN ActivityErrorText(name, obs)
              ELSE {"Activity task failed"})

\* str(e) of the error with which execute_child_workflow of a failed
\* Health-Gate raises in the parent: the library shows the child's message
\* or only its own.
ChildWorkflowErrorText(name, obs, shows_child, shows_activity) ==
    IF shows_child THEN HealthGateErrorText(name, obs, shows_activity)
    ELSE {"Child Workflow execution failed"}

----------------------------------------------------------------------------
(* PodRestartStateMachine *)

PodStates == <<"HEALTH_CHECK", "DECOMMISSION", "DELETE", "WAIT_READY",
               "RESET_ROUTING", "COMPLETE">>
ActivityStates == {"DECOMMISSION", "DELETE", "WAIT_READY", "RESET_ROUTING"}

NewPod ==
    [pc |-> "NOT_STARTED",
     states |-> <<>>,                          \* the states entered, in order
     attempt |-> 0,                            \* attempt of the state's activity
     health_green |-> FALSE,                   \* the Health-Gate returned GREEN
     decommission_success |-> FALSE,           \* decommission_result['success']
     wait_ready_ok |-> FALSE,                  \* wait_for_pod_ready returned
     reset_ok |-> FALSE,                       \* the reset activity returned
     set_new_primaries |-> FALSE,              \* its decommission set new_primaries
     delete_issued |-> FALSE,                  \* delete_namespaced_pod was called
     sql_executed |-> FALSE,                   \* a statement was sent to a pod
     success |-> FALSE,                        \* PodRestartResult.success
     error |-> NoError]

\* The workflow enters a state: the state's activity (or child) is scheduled.
EnterState(r, s) ==
    [r EXCEPT !.pc = s,
              !.states = Append(@, s),
              !.attempt = IF s \in ActivityStates THEN 1 ELSE 0]

\* The retry policy re-attempts the activity of the current state.
Retry(r) == [r EXCEPT !.attempt = @ + 1]

\* except Exception: the PodRestartResult with success=False
PodFailed(r, e) ==
    [r EXCEPT !.pc = "RETURNED", !.attempt = 0, !.success = FALSE, !.error = e]

\* STATE 6: COMPLETE
PodComplete(r) ==
    [EnterState(r, "COMPLETE") EXCEPT !.pc = "RETURNED", !.success = TRUE]

\* Variant that resets the routing on every cluster.
AfterWaitReady_Always(r) == EnterState(r, "RESET_ROUTING")

\* STATE 5: RESET_ROUTING is entered only without the decommission utility.
AfterWaitReady(r) ==
    IF ~cluster.has_dc_util THEN EnterState(r, "RESET_ROUTING") ELSE PodComplete(r)

\* Variant that does not look at decommission_result['success'].
DecommissionFailed_Unchecked(result_success) == FALSE

\* if not decommission_result['success']: raise
DecommissionFailed(result_success) == ~result_success

\* An activity attempt failed with a retryable error: retry, or give up.
Exhausted(r, max) == r.attempt >= max

InFlight(p) == pod[p].pc \notin {"NOT_STARTED", "RETURNED"}

\* STATE 1: the Health-Gate child of the pod's workflow returns or fails.
PodHealthCheck(p) ==
    /\ pod[p].pc = "HEALTH_CHECK"
    /\ \E h \in Observable(options.dry_run) :
         pod' = [pod EXCEPT ![p] =
                   IF h = "GREEN"
                   THEN EnterState([@ EXCEPT !.health_green = TRUE], "DECOMMISSION")
                   ELSE PodFailed(@, "health")]
    /\ UNCHANGED <<standalone, hc, cluster, options, crsm, record, gate, routing>>

\* STATE 2: a decommission_pod attempt returns a DecommissionResult.  The
\* activity reads the health, then (manual strategy) issues its statements;
\* n is the number of statements whose exec call returned.
PodDecommission(p) ==
    /\ pod[p].pc = "DECOMMISSION"
    /\ \E h \in Observable(options.dry_run), n \in 0..NumSqlCommands :
         LET issued == IF options.dry_run \/ cluster.has_dc_util \/ h # "GREEN"
                       THEN 0 ELSE n
             success == \/ options.dry_run
                        \/ /\ check_cluster_health(FALSE, h)
                           /\ (cluster.has_dc_util \/ issued = NumSqlCommands)
             r == [pod[p] EXCEPT !.decommission_success = success,
                                 !.set_new_primaries = @ \/ issued >= 1,
                                 !.sql_executed = @ \/ issued >= 1]
         IN  /\ (options.dry_run \/ cluster.has_dc_util \/ h # "GREEN") => n = 0
             /\ pod' = [pod EXCEPT ![p] =
                          IF DecommissionFailed(success)
                          THEN PodFailed(r, "decommission")
                          ELSE EnterState(r, "DELETE")]
             /\ routing' = IF issued >= 1 THEN "new_primaries" ELSE routing
    /\ UNCHANGED <<standalone, hc, cluster, options, crsm, record, gate>>

\* STATE 2: a decommission_pod attempt does not return (start-to-close or
\* heartbeat timeout, lost worker) after n statements: the policy retries it.
PodDecommissionTimeout(p) ==
    /\ pod[p].pc = "DECOMMISSION"
    /\ \E n \in 0..(NumSqlCommands - 1) :
         LET issued == IF options.dry_run \/ cluster.has_dc_util THEN 0 ELSE n
             r == [pod[p] EXCEPT !.set_new_primaries = @ \/ issued >= 1,
                                 !.sql_executed = @ \/ issued >= 1]
         IN  /\ (options.dry_run \/ cluster.has_dc_util) => n = 0
             /\ pod' = [pod EXCEPT ![p] =
                          IF Exhausted(r, create_activity_config("decommission", cluster))
                          THEN PodFailed(r, "decommission")
                          ELSE Retry(r)]
             /\ routing' = IF issued >= 1 THEN "new_primaries" ELSE routing
    /\ UNCHANGED <<standalone, hc, cluster, options, crsm, record, gate>>

\* STATE 3: a delete_pod attempt ends.  It reads the health and raises unless
\* GREEN; then it calls delete_namespaced_pod, which deletes or raises; the
\* attempt that returns True may still be lost to a timeout.
PodDelete(p) ==
    /\ pod[p].pc = "DELETE"
    /\ \E h \in Observable(options.dry_run), api_ok \in BOOLEAN, lost \in BOOLEAN :
         LET called == ~options.dry_run /\ check_cluster_health(FALSE, h)
             deleted == called /\ api_ok
             returned == (options.dry_run \/ deleted) /\ ~lost
             r == [pod[p] EXCEPT !.delete_issued = @ \/ called]
         IN  /\ (~called) => api_ok
             /\ pod' = [pod EXCEPT ![p] =
                          IF returned THEN EnterState(r, "WAIT_READY")
                          ELSE IF Exhausted(r, create_activity_config("pod_operations", cluster))
                               THEN PodFailed(r, "delete")
                               ELSE Retry(r)]
    /\ UNCHANGED <<standalone, hc, cluster, options, crsm, record, gate, routing>>

\* STATE 4: a wait_for_pod_ready attempt ends: the pod got ready and stable,
\* or the attempt raised (timeout, API errors, terminal phase).
PodWaitReady(p) ==
    /\ pod[p].pc = "WAIT_READY"
    /\ \E ready \in BOOLEAN :
         pod' = [pod EXCEPT ![p] =
                   IF ready \/ options.dry_run
                   THEN AfterWaitReady([@ EXCEPT !.wait_ready_ok = TRUE])
                   ELSE IF Exhausted(@, create_activity_config("pod_operations", cluster))
                        THEN PodFailed(@, "wait_ready")
                        ELSE Retry(@)]
    /\ UNCHANGED <<standalone, hc, cluster, options, crsm, record, gate, routing>>

\* Variant in which the reset's failure fails the pod restart.
ResetRoutingGaveUp_Fatal(r) == PodFailed(r, "reset_routing")

\* except Exception around the reset: "Don't fail the entire restart".
ResetRoutingGaveUp(r) == PodComplete(r)

\* STATE 5: a reset_cluster_routing_allocation attempt ends: the statement
\* was applied on some pod or on none, and the attempt returned or raised.  A
\* failure that exhausts the policy is logged and the restart continues.
PodResetRouting(p) ==
    /\ pod[p].pc = "RESET_ROUTING"
    /\ \E applied \in BOOLEAN, lost \in BOOLEAN :
         /\ ~applied => ~lost
         /\ LET r == [pod[p] EXCEPT !.sql_executed = @ \/ applied]
            IN  pod' = [pod EXCEPT ![p] =
                          IF applied /\ ~lost THEN PodComplete([r EXCEPT !.reset_ok = TRUE])
                          ELSE IF Exhausted(r, MaxAttemptsRoutingReset)
                               THEN ResetRoutingGaveUp(r)
                               ELSE Retry(r)]
         /\ routing' = IF applied THEN "all" ELSE routing
    /\ UNCHANGED <<standalone, hc, cluster, options, crsm, record, gate>>

----------------------------------------------------------------------------
(* MaintenanceWindowStateMachine *)

NewGate ==
    [pc |-> "NOT_STARTED",
     force_restart_signal |-> FALSE,
     force_restart_reason |-> NoReason,
     attempt |-> 0,
     check_should_wait |-> FALSE,              \* should_wait of the last check
     should_wait |-> FALSE,                    \* the result returned
     reason |-> NoReason]

\* The initial check_maintenance_window, or the one after a 300 s timeout,
\* returns its result.
GateCheck ==
    /\ gate.pc \in {"CHECK", "RECHECK"}
    /\ \E should_wait \in BOOLEAN :
         gate' = IF ~should_wait
                 THEN [gate EXCEPT !.pc = "RETURNED", !.attempt = 0,
                                   !.check_should_wait = FALSE,
                                   !.should_wait = FALSE, !.reason = "window"]
                 ELSE [gate EXCEPT !.pc = "WAIT", !.attempt = 0,
                                   !.check_should_wait = TRUE]
    /\ UNCHANGED <<standalone, hc, cluster, options, crsm, record, pod, routing>>

\* A check_maintenance_window attempt times out; the maintenance_check policy
\* retries it and then fails the gate.
GateCheckTimeout ==
    /\ gate.pc \in {"CHECK", "RECHECK"}
    /\ gate' = IF gate.attempt >= create_activity_config("maintenance_check", cluster)
               THEN [gate EXCEPT !.pc = "FAILED", !.attempt = 0]
               ELSE [gate EXCEPT !.attempt = @ + 1]
    /\ UNCHANGED <<standalone, hc, cluster, options, crsm, record, pod, routing>>

\* Variant of the override that returns the reason of the last check.
GateOverride_PlainReason ==
    /\ gate.pc = "WAIT"
    /\ gate.force_restart_signal
    /\ gate' = [gate EXCEPT !.pc = "RETURNED", !.should_wait = FALSE,
                            !.reason = "window"]
    /\ UNCHANGED <<standalone, hc, cluster, options, crsm, record, pod, routing>>

\* wait_condition(lambda: self.force_restart_signal) is satisfied.
GateOverride ==
    /\ gate.pc = "WAIT"
    /\ gate.force_restart_signal
    /\ gate' = [gate EXCEPT !.pc = "RETURNED", !.should_wait = FALSE,
                            !.reason = "Operator override: " \o gate.force_restart_reason]
    /\ UNCHANGED <<standalone, hc, cluster, options, crsm, record, pod, routing>>

\* wait_condition times out after 300 s: check again (the TimeoutError the
\* except clause names being the one wait_condition raises).
GateWaitTimeout ==
    /\ gate.pc = "WAIT"
    /\ ~gate.force_restart_signal
    /\ gate' = [gate EXCEPT !.pc = "RECHECK", !.attempt = 1]
    /\ UNCHANGED <<standalone, hc, cluster, options, crsm, record, pod, routing>>

\* MaintenanceWindowStateMachine.force_restart, sent to the gate's own workflow.
GateForceRestart ==
    /\ gate.pc \in {"CHECK", "WAIT", "RECHECK"}
    /\ \E reason \in Reasons :
         gate' = [gate EXCEPT !.force_restart_signal = TRUE,
                              !.force_restart_reason = reason]
    /\ UNCHANGED <<standalone, hc, cluster, options, crsm, record, pod, routing>>

----------------------------------------------------------------------------
(* ClusterRestartStateMachine *)

NewClusterRestart ==
    [force_restart_signal |-> FALSE,       \* __init__
     force_restart_reason |-> NoReason,
     pause_signal |-> FALSE,
     cancel_signal |-> FALSE,
     current_pod |-> NoPod,
     pods_completed |-> <<>>,
     self_skipped_pods |-> <<>>,           \* self.skipped_pods
     pc |-> "START",                       \* what run() awaits
     i |-> 1,                              \* position in cluster.pods
     attempt |-> 0,                        \* attempt of the awaited activity
     e |-> NoText,                         \* str(e) in the except of INITIAL_HEALTH
     observed |-> "NONE",                  \* what the failed gate observed last
     is_on_suspended_node |-> [p \in Pods |-> "none"],  \* the probe's results
     inter_health |-> [p \in Pods |-> "none"],  \* the inter-pod gate after p
     final_health |-> "none",              \* the final Health-Gate
     restarted_pods |-> <<>>,              \* run() locals
     skipped_pods |-> <<>>]

\* The get_status query: the dict it builds from the instance's fields.
get_status(w) ==
    [current_pod |-> w.current_pod,
     pods_completed |-> w.pods_completed,
     skipped_pods |-> w.self_skipped_pods,
     paused |-> w.pause_signal,
     cancelled |-> w.cancel_signal,
     force_restart_active |-> w.force_restart_signal]

\* The workflow is open: it has neither returned nor failed.
Running == crsm.pc \notin {"RETURNED", "RAISED"}

\* The dict both return statements of run() build.
Record(w, success, error) ==
    [returned |-> TRUE,
     success |-> success,
     restarted_pods |-> w.restarted_pods,
     skipped_pods |-> w.skipped_pods,
     total_pods |-> Len(cluster.pods),
     error |-> error,
     cancelled |-> w.cancel_signal]

\* Variant without the except clause: the exception leaves run().
Fail_Raise(w, error) ==
    /\ crsm' = [w EXCEPT !.pc = "RAISED", !.attempt = 0]
    /\ UNCHANGED <<record, pod>>

\* except Exception as e: the failure record is returned, nothing is raised.
Fail(w, error) ==
    /\ crsm' = [w EXCEPT !.pc = "RETURNED", !.attempt = 0]
    /\ record' = Record(w, FALSE, error)
    /\ UNCHANGED pod

\* Variant of the success expression that does not read cancel_signal.
Complete_IgnoreCancel(w) ==
    /\ crsm' = [w EXCEPT !.pc = "RETURNED", !.attempt = 0]
    /\ record' = Record(w, TRUE, NoError)
    /\ UNCHANGED pod

\* STATE 6: COMPLETE
Complete(w) ==
    /\ crsm' = [w EXCEPT !.pc = "RETURNED", !.attempt = 0]
    /\ record' = Record(w, ~w.cancel_signal, NoError)
    /\ UNCHANGED pod

\* run() awaits an activity, a child other than a pod restart, or a timer.
Await(w, what) ==
    /\ crsm' = [w EXCEPT !.pc = what, !.attempt = 1]
    /\ UNCHANGED <<record, pod>>

\* Variant that runs the final gate whatever was restarted.
FinalHealth_Always(w) ==
    Await([w EXCEPT !.final_health = "running"], "FINAL_HEALTH")

\* STATE 5: FINAL_HEALTH, only if pods were restarted
FinalHealth(w) ==
    IF w.restarted_pods # <<>>
    THEN Await([w EXCEPT !.final_health = "running"], "FINAL_HEALTH")
    ELSE Complete(w)

\* execute_child_workflow(PodRestartStateMachine.run, ...)
StartPodRestart(w, p) ==
    /\ crsm' = [w EXCEPT !.pc = "POD_RESTART", !.attempt = 0]
    /\ pod' = [pod EXCEPT ![p] = EnterState(@, "HEALTH_CHECK")]
    /\ UNCHANGED record

\* The loop body from "self.current_pod = pod_name" to its first await.
RestartOrFilter(w) ==
    LET p == cluster.pods[w.i]
        w1 == [w EXCEPT !.current_pod = p]
    IN  IF options.only_on_suspended_nodes
        THEN Await(w1, "NODE_CHECK")
        ELSE StartPodRestart(w1, p)

\* if self.cancel_signal: break
CancelCheck(w) == w.cancel_signal

\* The head of the loop for position w.i: the end of the list, the cancel
\* check, the pause check.
LoopTop(w) ==
    IF w.i > Len(cluster.pods) THEN FinalHealth(w)
    ELSE IF CancelCheck(w) THEN FinalHealth(w)
    ELSE IF w.pause_signal THEN Await(w, "PAUSED")
    ELSE RestartOrFilter(w)

\* Variant of the iteration that steps over a position.
NextPod_Stride(w) == LoopTop([w EXCEPT !.i = @ + 2])

\* continue, or the end of the loop body
NextPod(w) == LoopTop([w EXCEPT !.i = @ + 1])

\* STATE 1: MAINTENANCE_CHECK, when windows are configured and not ignored
MaintenanceCheckWanted(o) ==
    ~o.ignore_maintenance_windows /\ o.maintenance_config_path

\* run() starts: to the maintenance gate, or straight to validate_cluster.
Run ==
    /\ crsm.pc = "START"
    /\ IF MaintenanceCheckWanted(options)
       THEN /\ Await(crsm, "MAINTENANCE_CHECK")
            /\ gate' = [gate EXCEPT !.pc = "CHECK", !.attempt = 1]
       ELSE /\ Await(crsm, "VALIDATION")
            /\ UNCHANGED gate
    /\ UNCHANGED <<standalone, hc, cluster, options, routing>>

\* The Maintenance-Gate child returned or failed.
MaintenanceCheckDone ==
    /\ crsm.pc = "MAINTENANCE_CHECK"
    /\ gate.pc \in {"RETURNED", "FAILED"}
    /\ IF gate.pc = "RETURNED" THEN Await(crsm, "VALIDATION")
       ELSE Fail(crsm, "maintenance")
    /\ UNCHANGED <<standalone, hc, cluster, options, gate, routing>>

\* STATE 2: validate_cluster returned, or its attempts are used up.
Validation ==
    /\ crsm.pc = "VALIDATION"
    /\ \E returned \in BOOLEAN,
          validation_result \in
              {ClusterValidationResult(
                   Descriptor(cluster, health, has_prestop_hook),
                   skip_hook_warning) :
                   health \in HealthSymbols, has_prestop_hook \in BOOLEAN,
                   skip_hook_warning \in BOOLEAN} :
         IF returned
         THEN IF validation_result.is_valid
              THEN Await(crsm, "INITIAL_HEALTH")
              ELSE Fail(crsm, "validation")
         ELSE IF crsm.attempt >= create_activity_config("api_calls", cluster)
              THEN Fail(crsm, "validation")
              ELSE /\ crsm' = [crsm EXCEPT !.attempt = @ + 1]
                   /\ UNCHANGED <<record, pod>>
    /\ UNCHANGED <<standalone, hc, cluster, options, gate, routing>>

\* STATE 3: the initial Health-Gate returned GREEN, or failed: its last
\* attempt observed obs, and execute_child_workflow raises e.
InitialHealth ==
    /\ crsm.pc = "INITIAL_HEALTH"
    /\ \E obs \in Observations(options.dry_run),
          shows_child \in BOOLEAN, shows_activity \in BOOLEAN :
         /\ (obs = "GREEN" \/ ~shows_child) => ~shows_activity
         /\ obs = "GREEN" => ~shows_child
         /\ IF obs = "GREEN"
            THEN LoopTop(crsm)
            ELSE /\ crsm' = [crsm EXCEPT
                               !.pc = "INITIAL_HEALTH_EXCEPT",
                               !.attempt = 0,
                               !.observed = obs,
                               !.e = ChildWorkflowErrorText(cluster.name, obs,
                                                            shows_child, shows_activity)]
                 /\ UNCHANGED <<record, pod>>
    /\ UNCHANGED <<standalone, hc, cluster, options, gate, routing>>

\* if "RED" in str(e) or "UNREACHABLE" in str(e)
NamesUnhealthy(text) == in_str("RED", text) \/ in_str("UNREACHABLE", text)

\* STATE 3, except Exception as e: raise for an unhealthy cluster, else warn
\* and proceed to the pods.
InitialHealthExcept ==
    /\ crsm.pc = "INITIAL_HEALTH_EXCEPT"
    /\ LET w == [crsm EXCEPT !.e = NoText, !.observed = "NONE"]
       IN  IF NamesUnhealthy(crsm.e)
           THEN Fail(w, "initial_health")
           ELSE LoopTop(w)
    /\ UNCHANGED <<standalone, hc, cluster, options, gate, routing>>

\* wait_condition(lambda: not self.pause_signal or self.cancel_signal) is
\* satisfied.
PauseEnds ==
    /\ crsm.pc = "PAUSED"
    /\ ~crsm.pause_signal \/ crsm.cancel_signal
    /\ IF crsm.cancel_signal THEN FinalHealth(crsm) ELSE RestartOrFilter(crsm)
    /\ UNCHANGED <<standalone, hc, cluster, options, gate, routing>>

\* Variant of the timeout below in which the wait ends as if resumed.
PauseTimeout_Resumes ==
    /\ crsm.pc = "PAUSED"
    /\ ~(~crsm.pause_signal \/ crsm.cancel_signal)
    /\ RestartOrFilter(crsm)
    /\ UNCHANGED <<standalone, hc, cluster, options, gate, routing>>

\* The 24 h timeout of the pause wait raises.
PauseTimeout ==
    /\ crsm.pc = "PAUSED"
    /\ ~(~crsm.pause_signal \/ crsm.cancel_signal)
    /\ Fail(crsm, "pause")
    /\ UNCHANGED <<standalone, hc, cluster, options, gate, routing>>

\* Variant of the skip branches without their "continue".
Skip_NoContinue(w) ==
    StartPodRestart([w EXCEPT !.skipped_pods = Append(@, w.current_pod),
                              !.self_skipped_pods = Append(@, w.current_pod)],
                    w.current_pod)

\* The skip branches of the node filter.
Skip(w) ==
    NextPod([w EXCEPT !.skipped_pods = Append(@, w.current_pod),
                      !.self_skipped_pods = Append(@, w.current_pod)])

\* Keys of node taints and annotations: those the probe looks for that the
\* model uses, and one of each that it does not look for.
TaintKeys ==
    {"node.kubernetes.io/unschedulable",
     "aws.amazon.com/spot-instance-terminating",
     "dedicated"}

AnnotationKeys == {"node.kubernetes.io/suspend", "owner"}

SuspensionTaints ==
    {"node.kubernetes.io/unschedulable",
     "node.kubernetes.io/not-ready",
     "node.kubernetes.io/unreachable",
     "aws.amazon.com/spot-instance-terminating",
     "cluster-autoscaler.kubernetes.io/scale-down-disabled",
     "node.kubernetes.io/suspend"}

SuspensionAnnotations ==
    {"cluster-autoscaler.kubernetes.io/scale-down-disabled",
     "node.kubernetes.io/suspend",
     "node.kubernetes.io/suspended"}

\* What the Kubernetes API says of the pod's node; assigned is
\* pod.spec.node_name being set.
Nodes ==
    [assigned : BOOLEAN, unschedulable : BOOLEAN,
     taints : SUBSET TaintKeys, annotations : SUBSET AnnotationKeys]

\* Variant of the probe that looks at spec.unschedulable only.
is_pod_on_suspended_node_UnschedulableOnly(node, api_exception) ==
    ~api_exception /\ node.assigned /\ node.unschedulable

\* is_pod_on_suspended_node: an exception of the API is caught and gives
\* False.
is_pod_on_suspended_node(node, api_exception) ==
    IF api_exception THEN FALSE
    ELSE IF ~node.assigned THEN FALSE
    ELSE \/ node.unschedulable
         \/ node.taints \cap SuspensionTaints # {}
         \/ node.annotations \cap SuspensionAnnotations # {}

\* is_pod_on_suspended_node returned, or failed for good (the except branch).
NodeCheck ==
    /\ crsm.pc = "NODE_CHECK"
    /\ \E returned \in BOOLEAN,
          is_on_suspended_node \in
              {is_pod_on_suspended_node(node, api_exception) :
                   node \in Nodes, api_exception \in BOOLEAN} :
         LET p == crsm.current_pod
             Probed(result) == [crsm EXCEPT !.is_on_suspended_node[p] = result]
         IN  IF returned
             THEN IF is_on_suspended_node
                  THEN StartPodRestart(Probed("true"), p)
                  ELSE Skip(Probed("false"))
             ELSE IF crsm.attempt >= create_activity_config("api_calls", cluster)
                  THEN Skip(Probed("failed"))
                  ELSE /\ crsm' = [crsm EXCEPT !.attempt = @ + 1]
                       /\ UNCHANGED <<record, pod>>
    /\ UNCHANGED <<standalone, hc, cluster, options, gate, routing>>

\* await execute_child_workflow(...) of the pod restart is over.
ChildReturned(p) == pod[p].pc = "RETURNED"

\* Variant that does not look at pod_result.success.
PodRestartFailed_Unchecked(result) == FALSE

\* if not pod_result.success: raise
PodRestartFailed(result) == ~result.success

\* Variant that does not await the child: it is started and taken as done.
\* Variant of the run without the inter-pod gate.
InterPodGateWanted_Never(w) == FALSE

\* "if i < len(cluster.pods) - 1", i counted from 0 there and from 1 here.
InterPodGateWanted(w) == w.i < Len(cluster.pods)

PodRestartDone_NoAwait ==
    /\ crsm.pc = "POD_RESTART"
    /\ LET w == [crsm EXCEPT !.restarted_pods = Append(@, crsm.current_pod),
                             !.pods_completed = Append(@, crsm.current_pod)]
       IN  IF InterPodGateWanted(w) THEN Await(w, "STABILIZE") ELSE NextPod(w)
    /\ UNCHANGED <<standalone, hc, cluster, options, gate, routing>>

\* The pod-restart child returned its PodRestartResult.
PodRestartDone ==
    /\ crsm.pc = "POD_RESTART"
    /\ ChildReturned(crsm.current_pod)
    /\ IF PodRestartFailed(pod[crsm.current_pod])
       THEN Fail(crsm, "pod_restart")
       ELSE LET w == [crsm EXCEPT !.restarted_pods = Append(@, crsm.current_pod),
                                  !.pods_completed = Append(@, crsm.current_pod)]
            IN  IF InterPodGateWanted(w) THEN Await(w, "STABILIZE") ELSE NextPod(w)
    /\ UNCHANGED <<standalone, hc, cluster, options, gate, routing>>

\* workflow.sleep(5 s) is over: the inter-pod Health-Gate is started.
Stabilized ==
    /\ crsm.pc = "STABILIZE"
    /\ Await(crsm, "INTER_HEALTH")
    /\ UNCHANGED <<standalone, hc, cluster, options, gate, routing>>

\* The inter-pod Health-Gate returned GREEN or failed.
InterHealth ==
    /\ crsm.pc = "INTER_HEALTH"
    /\ \E h \in Observable(options.dry_run) :
         LET Gated(result) ==
                 [crsm EXCEPT !.inter_health[crsm.current_pod] = result]
         IN  IF h = "GREEN" THEN NextPod(Gated("green"))
             ELSE Fail(Gated("failed"), "inter_health")
    /\ UNCHANGED <<standalone, hc, cluster, options, gate, routing>>

\* The final Health-Gate returned GREEN or failed.
FinalHealthDone ==
    /\ crsm.pc = "FINAL_HEALTH"
    /\ \E h \in Observable(options.dry_run) :
         IF h = "GREEN" THEN Complete([crsm EXCEPT !.final_health = "green"])
         ELSE Fail([crsm EXCEPT !.final_health = "failed"], "final_health")
    /\ UNCHANGED <<standalone, hc, cluster, options, gate, routing>>

(* Signals *)

\* The bodies of the signal handlers, on the instance's fields.
on_force_restart(w, reason) ==
    [w EXCEPT !.force_restart_signal = TRUE, !.force_restart_reason = reason]

\* Variant of pause_restart that toggles the flag.
on_pause_restart_Toggle(w) == [w EXCEPT !.pause_signal = ~@]

on_pause_restart(w) == [w EXCEPT !.pause_signal = TRUE]

on_resume_restart(w) == [w EXCEPT !.pause_signal = FALSE]

on_cancel_restart(w) == [w EXCEPT !.cancel_signal = TRUE]

force_restart ==
    /\ Running
    /\ \E reason \in Reasons : crsm' = on_force_restart(crsm, reason)
    /\ UNCHANGED <<standalone, hc, cluster, options, record, pod, gate, routing>>

pause_restart ==
    /\ Running
    /\ crsm' = on_pause_restart(crsm)
    /\ UNCHANGED <<standalone, hc, cluster, options, record, pod, gate, routing>>

resume_restart ==
    /\ Running
    /\ crsm' = on_resume_restart(crsm)
    /\ UNCHANGED <<standalone, hc, cluster, options, record, pod, gate, routing>>

cancel_restart ==
    /\ Running
    /\ crsm' = on_cancel_restart(crsm)
    /\ UNCHANGED <<standalone, hc, cluster, options, record, pod, gate, routing>>

----------------------------------------------------------------------------
(* MultiClusterRestartWorkflow *)

MaxClusters == 3
MaxAttemptsDiscovery == 3

NoMultiResult == [returned |-> FALSE]

\* MultiClusterRestartResult
MultiClusterRestartResult(results) ==
    [returned |-> TRUE,
     results |-> results,
     total_clusters |-> Len(results),
     successful_clusters |->
         Cardinality({i \in DOMAIN results : results[i].success}),
     failed_clusters |->
         Len(results) - Cardinality({i \in DOMAIN results : results[i].success})]

\* The record of the except clause: no results, one failure.
MultiExceptResult ==
    [returned |-> TRUE, results |-> <<>>, total_clusters |-> 0,
     successful_clusters |-> 0, failed_clusters |-> 1]

NewMulti ==
    [pc |-> "DISCOVER",
     attempt |-> 1,                            \* attempt of discover_clusters
     clusters |-> <<>>,                        \* discovery_result.clusters
     k |-> 0,                                  \* position of the awaited child
     child |-> [c \in 1..MaxClusters |-> "not_started"],
     results |-> <<>>,
     result |-> NoMultiResult]                 \* what run() returned

\* except Exception as e
MultiExcept(m) == [m EXCEPT !.pc = "RETURNED", !.result = MultiExceptResult]

\* execute_child_workflow(ClusterRestartWorkflow.run, ...) for position k,
\* or the end of the loop.
MultiLoop(m, k) ==
    IF k <= Len(m.clusters)
    THEN [m EXCEPT !.pc = "CHILD", !.k = k, !.child[m.clusters[k]] = "running"]
    ELSE [m EXCEPT !.pc = "RETURNED",
                   !.result = MultiClusterRestartResult(m.results)]

\* discover_clusters returned n clusters, or an attempt failed.
MultiDiscover ==
    /\ multi.pc = "DISCOVER"
    /\ \E returned \in BOOLEAN, n \in 0..MaxClusters :
         multi' =
             IF returned
             THEN LET m == [multi EXCEPT !.clusters = [i \in 1..n |-> i]]
                  IN  IF n = 0
                      THEN [m EXCEPT !.pc = "RETURNED",
                                     !.result = MultiClusterRestartResult(<<>>)]
                      ELSE MultiLoop(m, 1)
             ELSE IF multi.attempt >= MaxAttemptsDiscovery
                  THEN MultiExcept(multi)
                  ELSE [multi EXCEPT !.attempt = @ + 1]
    /\ UNCHANGED <<main, hc, leaf, dp, md, wr>>

\* The awaited child ended: it returned a RestartResult, or it failed
\* (terminated, timed out, cancelled) and the await raised.
MultiChildEnds ==
    /\ multi.pc = "CHILD"
    /\ \E outcome \in {"success", "failure", "raised"} :
         LET c == multi.clusters[multi.k]
             m == [multi EXCEPT !.child[c] = outcome]
         IN  multi' =
                 IF outcome = "raised" THEN MultiExcept(m)
                 ELSE MultiLoop(
                          [m EXCEPT !.results =
                               Append(@, [cluster |-> c,
                                          success |-> outcome = "success"])],
                          multi.k + 1)
    /\ UNCHANGED <<main, hc, leaf, dp, md, wr>>

----------------------------------------------------------------------------
(* CrateDBActivities.delete_pod and the legacy restart_pod, one invocation *)

NewDelete ==
    [pc |-> "IDLE",
     activity |-> "none",                      \* delete_pod or restart_pod
     dry_run |-> FALSE,                        \* input_data.dry_run
     gate_passed |-> FALSE,                    \* the pod's Health-Gate saw GREEN before
     health_read |-> "NONE",                   \* what the activity's own read met
     delete_calls |-> 0,                       \* calls of delete_namespaced_pod
     result |-> "none"]

\* How an invocation that raised ends: delete_pod re-raises, restart_pod
\* returns PodRestartResult(success=False).
DeleteFails(d) ==
    [d EXCEPT !.pc = "DONE",
              !.result = IF d.activity = "delete_pod" THEN "raised" ELSE "failure"]

\* The activity is invoked; in dry-run it returns at once.
DeleteInvoke ==
    /\ dp.pc = "IDLE"
    /\ \E activity \in {"delete_pod", "restart_pod"}, dry_run \in BOOLEAN,
          gate_passed \in BOOLEAN :
         LET d == [dp EXCEPT !.activity = activity, !.dry_run = dry_run,
                             !.gate_passed = gate_passed]
         IN  dp' = IF dry_run
                   THEN [d EXCEPT !.pc = "DONE",
                                  !.result = IF activity = "delete_pod"
                                             THEN "returned" ELSE "success"]
                   ELSE [d EXCEPT !.pc = "HEALTH"]
    /\ UNCHANGED <<main, hc, leaf, multi, md, wr>>

\* await self.check_cluster_health(...): it returns for GREEN and raises
\* for any other symbol and for an API error; restart_pod also raises when
\* the result it got is not GREEN.
DeleteHealthRead ==
    /\ dp.pc = "HEALTH"
    /\ \E obs \in Observations(FALSE) :
         LET d == [dp EXCEPT !.health_read = obs]
             health_result == obs # "ERROR" /\ check_cluster_health(FALSE, obs)
         IN  dp' = IF /\ health_result
                      /\ d.activity = "restart_pod" => obs = "GREEN"
                   THEN [d EXCEPT !.pc = IF d.activity = "delete_pod"
                                         THEN "DELETE_CALL" ELSE "DECOMMISSION"]
                   ELSE DeleteFails(d)
    /\ UNCHANGED <<main, hc, leaf, multi, md, wr>>

\* restart_pod: _execute_decommission_strategy returns or raises.
DeleteDecommission ==
    /\ dp.pc = "DECOMMISSION"
    /\ \E ok \in BOOLEAN :
         dp' = IF ok THEN [dp EXCEPT !.pc = "DELETE_CALL"] ELSE DeleteFails(dp)
    /\ UNCHANGED <<main, hc, leaf, multi, md, wr>>

\* core_v1.delete_namespaced_pod is called; it returns or raises.
DeleteCall ==
    /\ dp.pc = "DELETE_CALL"
    /\ \E ok \in BOOLEAN :
         LET d == [dp EXCEPT !.delete_calls = @ + 1]
         IN  dp' = IF ~ok THEN DeleteFails(d)
                   ELSE IF d.activity = "delete_pod"
                        THEN [d EXCEPT !.pc = "DONE", !.result = "returned"]
                        ELSE [d EXCEPT !.pc = "WAIT"]
    /\ UNCHANGED <<main, hc, leaf, multi, md, wr>>

\* restart_pod: _wait_for_pod_ready returns or raises.
DeleteWait ==
    /\ dp.pc = "WAIT"
    /\ \E ok \in BOOLEAN :
         dp' = IF ok THEN [dp EXCEPT !.pc = "DONE", !.result = "success"]
               ELSE DeleteFails(dp)
    /\ UNCHANGED <<main, hc, leaf, multi, md, wr>>

----------------------------------------------------------------------------
(* CrateDBActivities.decommission_pod, one invocation *)

\* sql_commands, by position: 1 routing.allocation.enable = new_primaries,
\* 2 graceful_stop.timeout, 3 graceful_stop.force,
\* 4 graceful_stop.min_availability, 5 alter cluster decommission.
sql_commands == [idx \in 1..NumSqlCommands |-> idx]

\* How the exec of one curl command can end.  _execute_command_in_pod
\* returns the output of the command whatever its exit status and whatever
\* the database answered; it raises only when the exec call itself fails.
ExecOutcomes == {"accepted", "rejected", "curl_failed", "raised"}

NewManualDecommission ==
    [pc |-> "IDLE",
     dry_run |-> FALSE,
     has_dc_util |-> FALSE,
     idx |-> 0,                                \* position in sql_commands
     issued |-> <<>>,                          \* the statements sent, in order
     outcomes |-> <<>>,                        \* how each of them ended
     pid1_exited |-> FALSE,                    \* the database process has exited
     result |-> "none"]                        \* DecommissionResult.success, or timeout

\* decommission_pod is invoked: the dry-run return, or the health read.
DecommissionInvoke ==
    /\ md.pc = "IDLE"
    /\ \E dry_run \in BOOLEAN, has_dc_util \in BOOLEAN :
         LET d == [md EXCEPT !.dry_run = dry_run, !.has_dc_util = has_dc_util]
         IN  md' = IF dry_run
                   THEN [d EXCEPT !.pc = "DONE", !.result = "success"]
                   ELSE [d EXCEPT !.pc = "HEALTH"]
    /\ UNCHANGED <<main, hc, leaf, multi, dp, wr>>

\* The health read, then _execute_decommission_strategy: nothing to do with
\* has_dc_util, the first statement without.
DecommissionHealthRead ==
    /\ md.pc = "HEALTH"
    /\ \E obs \in Observations(FALSE) :
         md' = IF obs # "ERROR" /\ check_cluster_health(FALSE, obs)
               THEN IF md.has_dc_util
                    THEN [md EXCEPT !.pc = "DONE", !.result = "success"]
                    ELSE [md EXCEPT !.pc = "SQL", !.idx = 1]
               ELSE [md EXCEPT !.pc = "DONE", !.result = "failure"]
    /\ UNCHANGED <<main, hc, leaf, multi, dp, wr>>

\* The exec of statement idx ends.  The command of the last statement waits
\* for PID 1 to exit when curl exited with 0, and exits with curl's status
\* otherwise.
DecommissionStatement ==
    /\ md.pc = "SQL"
    /\ \E outcome \in ExecOutcomes :
         LET d == [md EXCEPT !.issued = Append(@, sql_commands[md.idx]),
                             !.outcomes = Append(@, outcome)]
         IN  md' =
                 IF outcome = "raised"
                 THEN [d EXCEPT !.pc = "DONE", !.result = "failure"]
                 ELSE IF md.idx < NumSqlCommands
                      THEN [d EXCEPT !.idx = @ + 1]
                      ELSE IF outcome = "curl_failed"
                           THEN [d EXCEPT !.pc = "DONE", !.result = "success"]
                           ELSE [d EXCEPT !.pc = "PID1_WAIT"]
    /\ UNCHANGED <<main, hc, leaf, multi, dp, wr>>

\* "while kill -0 1": the process exits after an accepted decommission and
\* the exec returns; or the activity runs into its timeout.
DecommissionPid1Wait ==
    /\ md.pc = "PID1_WAIT"
    /\ \E exits \in BOOLEAN :
         md' = IF exits /\ md.outcomes[NumSqlCommands] = "accepted"
               THEN [md EXCEPT !.pc = "DONE", !.pid1_exited = TRUE,
                               !.result = "success"]
               ELSE [md EXCEPT !.pc = "DONE", !.result = "timeout"]
    /\ UNCHANGED <<main, hc, leaf, multi, dp, wr>>

----------------------------------------------------------------------------
(* CrateDBActivities.wait_for_pod_ready under the pod_operations policy *)

PollInterval == 5                \* asyncio.sleep(5)
min_ready_duration == 20
max_consecutive_errors == 3
PodReadyTimeout == 40            \* input_data.pod_ready_timeout, in seconds

NoTime == 0 - 1                  \* pod_ready_time is None

\* What a poll can meet: the pod's phase, with the status of its Ready
\* condition when Running (absent: no condition of type Ready), or an
\* ApiException of read_namespaced_pod.
PollObservations ==
    {"Running/True", "Running/False", "Running/absent", "Pending", "Failed",
     "Succeeded", "Unknown", "ApiException"}

\* non_retryable_error_types of the pod_operations policy
NonRetryablePodOperations ==
    {"ResourceNotFoundError", "ValidationError", "ActivityCancellationError"}

NewWait ==
    [pc |-> "POLL",
     attempt |-> 1,                            \* attempt of the activity
     now |-> 0,                                \* time.time() - start_time
     pod_ready_time |-> NoTime,
     consecutive_errors |-> 0,
     ready_polls |-> 0,       \* latest polls in a row with Running, Ready=True
     terminal_attempt |-> 0,  \* the attempt that first met Failed or Succeeded
     raised |-> "none"]       \* type of the error the last attempt raised

\* The attempt raised an error of this type: the policy retries it unless
\* the type is non-retryable or the attempts are used up; then the
\* WAIT_READY state fails.
WaitRaises(w, type) ==
    IF type \in NonRetryablePodOperations
         \/ w.attempt >= get_standard_retry_policy("pod_operations")
    THEN [w EXCEPT !.pc = "FAILED", !.raised = type]
    ELSE [w EXCEPT !.attempt = @ + 1, !.now = 0, !.pod_ready_time = NoTime,
                   !.consecutive_errors = 0, !.ready_polls = 0,
                   !.raised = type]

\* "except Exception" (and "except ApiException") of the polling loop: the
\* error is counted; the third in a row raises a plain Exception, which the
\* activity wraps in another plain Exception.
WaitCountsError(w) ==
    LET w1 == [w EXCEPT !.consecutive_errors = @ + 1]
    IN  IF w1.consecutive_errors >= max_consecutive_errors
        THEN WaitRaises(w1, "Exception")
        ELSE [w1 EXCEPT !.pod_ready_time = NoTime, !.now = @ + PollInterval]

\* Variant of the readiness test in which an absent Ready condition is not
\* ready.
PodIsReady_Strict(obs) == obs = "Running/True"

\* ready = True, unless a condition of type Ready has another status.
PodIsReady(obs) == obs \in {"Running/True", "Running/absent"}

\* One iteration of the polling loop, or the timeout after it.
WaitPoll ==
    /\ wr.pc = "POLL"
    /\ IF wr.now >= PodReadyTimeout
       THEN wr' = WaitRaises(wr, "TimeoutError")
       ELSE \E obs \in PollObservations :
              LET w == [wr EXCEPT
                          !.ready_polls = IF obs = "Running/True" THEN @ + 1 ELSE 0,
                          !.terminal_attempt =
                              IF @ = 0 /\ obs \in {"Failed", "Succeeded"}
                              THEN wr.attempt ELSE @]
                  ok == [w EXCEPT !.consecutive_errors = 0]
              IN  wr' =
                    CASE obs = "ApiException" -> WaitCountsError(w)
                      [] obs \in {"Failed", "Succeeded"} -> WaitCountsError(ok)
                      [] PodIsReady(obs) /\ ok.pod_ready_time = NoTime ->
                           [ok EXCEPT !.pod_ready_time = ok.now,
                                      !.now = @ + PollInterval]
                      [] PodIsReady(obs) /\ ok.pod_ready_time # NoTime ->
                           IF ok.now - ok.pod_ready_time >= min_ready_duration
                           THEN [ok EXCEPT !.pc = "RETURNED"]
                           ELSE [ok EXCEPT !.now = @ + PollInterval]
                      [] OTHER ->
                           [ok EXCEPT !.pod_ready_time = NoTime,
                                      !.now = @ + PollInterval]
    /\ UNCHANGED <<main, hc, leaf, multi, dp, md>>


----------------------------------------------------------------------------
(* CrateDBActivities._reset_cluster_routing_allocation, one invocation *)

\* The values cluster.pods can have: the lists without repetition over Pods.
PodLists ==
    {l \in UNION {[1..n -> Pods] : n \in 1..NPods} : NoDuplicates(l)}

fallback_pods_WholeList(pods, pod_name) == pods

\* fallback_pods = [p for p in cluster.pods if p != pod_name]
fallback_pods(pods, pod_name) == SelectSeq(pods, LAMBDA p : p # pod_name)

\* The pods in the order the routine would exec into them.
ResetOrder(pods, pod_name) == <<pod_name>> \o fallback_pods(pods, pod_name)

NewReset ==
    [pc        |-> "IDLE",
     pod_name  |-> NoPod,
     pods      |-> <<>>,
     contacted |-> <<>>,     \* the pods _execute_command_in_pod was called on
     outcomes  |-> <<>>]     \* how each of these calls ended

\* The activity calls the routine for the pod that was restarted.
ResetInvoke ==
    /\ rs.pc = "IDLE"
    /\ \E pods \in PodLists : \E pod_name \in Range(pods) :
         rs' = [NewReset EXCEPT !.pc = "EXEC", !.pods = pods,
                                !.pod_name = pod_name]
    /\ UNCHANGED <<main, hc, multi, dp, md, wr, kp, mw, lw>>

\* One "try: resp = await self._execute_command_in_pod(...); return" with
\* its "except Exception": the next pod of the order, a return when the
\* call returns, the final raise when the last call raised.
ResetExec ==
    /\ rs.pc = "EXEC"
    /\ \E outcome \in ExecOutcomes :
         LET order == ResetOrder(rs.pods, rs.pod_name)
             k == Len(rs.contacted) + 1
             called == [rs EXCEPT !.contacted = Append(@, order[k]),
                                  !.outcomes = Append(@, outcome)]
         IN  rs' = IF outcome # "raised"
                   THEN [called EXCEPT !.pc = "RETURNED"]
                   ELSE IF k < Len(order)
                        THEN called
                        ELSE [called EXCEPT !.pc = "RAISED"]
    /\ UNCHANGED <<main, hc, multi, dp, md, wr, kp, mw, lw>>

----------------------------------------------------------------------------
(* The DELETE and WAIT_READY states of PodRestartStateMachine against the  *)
(* Kubernetes API: delete_pod and wait_for_pod_ready under the             *)
(* pod_operations policy, and the pod object of the name they work on      *)

\* How many pod objects of the name the StatefulSet creates in a run.
MaxIncarnation == 3

\* Polls in a row that must find the pod ready before _wait_for_pod_ready
\* returns: the one that sets pod_ready_time and those of the next
\* min_ready_duration seconds.
StablePolls == (min_ready_duration \div PollInterval) + 1

NewPodObject ==
    [pc |-> "IDLE",
     dry_run |-> FALSE,
     attempt |-> 0,            \* attempt of the running activity
     answer |-> "none",        \* of the last delete_namespaced_pod call
     result |-> "none",        \* of the last delete_pod attempt
     consecutive_errors |-> 0,
     ready_polls |-> 0,        \* polls since pod_ready_time was set
     stable_uid |-> 0,         \* the object the returning poll read
     \* the pod object of input_data.pod_name
     uid |-> 1,
     exists |-> TRUE,
     terminating |-> FALSE,    \* metadata.deletionTimestamp is set
     phase |-> "Running",
     ready |-> TRUE,
     deleted |-> {}]           \* the objects a delete call took effect on

\* The activity attempt raised, timed out or its result was lost: the
\* policy starts another attempt unless the attempts are used up.
PodOperationRetry(k) ==
    IF k.attempt >= get_standard_retry_policy("pod_operations")
    THEN [k EXCEPT !.pc = "FAILED"]
    ELSE [k EXCEPT !.attempt = @ + 1, !.consecutive_errors = 0,
                   !.ready_polls = 0]

\* STATE 3: DELETE is entered.
EnterDelete ==
    /\ kp.pc = "IDLE"
    /\ \E dry_run \in BOOLEAN :
         kp' = [kp EXCEPT !.pc = "DELETE", !.dry_run = dry_run, !.attempt = 1]
    /\ UNCHANGED <<main, hc, multi, dp, md, wr, rs, mw, lw>>

\* delete_namespaced_pod on the object: it marks an object that is not yet
\* terminating; on a terminating one it changes nothing.
delete_namespaced_pod(k) ==
    IF k.terminating THEN [k EXCEPT !.answer = "200"]
    ELSE [k EXCEPT !.answer = "200", !.terminating = TRUE,
                   !.deleted = @ \cup {k.uid}]

\* Variant of the handler below in which a 404 answer of the delete call
\* ends the attempt with success.
DeletePodRaises_404IsSuccess(k) ==
    IF k.answer = "404"
    THEN [k EXCEPT !.pc = "WAIT_READY", !.attempt = 1, !.result = "returned"]
    ELSE PodOperationRetry([k EXCEPT !.result = "raised"])

\* "except Exception as e: raise Exception(error_msg)" of delete_pod
DeletePodRaises(k) == PodOperationRetry([k EXCEPT !.result = "raised"])

\* One attempt of delete_pod: the health read, the delete call and the
\* delivery of the result to the workflow, which can fail after the call
\* was made (start_to_close timeout, worker crash).
DeletePodAttempt ==
    /\ kp.pc = "DELETE"
    /\ IF kp.dry_run
       THEN kp' = [kp EXCEPT !.pc = "WAIT_READY", !.attempt = 1,
                             !.result = "returned"]
       ELSE \E obs \in Observations(FALSE), api_error, lost \in BOOLEAN :
              LET read == [kp EXCEPT !.answer = "none"]
                  called == IF ~kp.exists THEN [read EXCEPT !.answer = "404"]
                            ELSE IF api_error THEN [read EXCEPT !.answer = "error"]
                            ELSE delete_namespaced_pod(read)
              IN  kp' =
                    IF obs = "ERROR" \/ ~check_cluster_health(FALSE, obs)
                    THEN DeletePodRaises(read)
                    ELSE IF called.answer # "200" THEN DeletePodRaises(called)
                    ELSE IF lost
                         THEN PodOperationRetry([called EXCEPT !.result = "lost"])
                         ELSE [called EXCEPT !.pc = "WAIT_READY", !.attempt = 1,
                                             !.result = "returned"]
    /\ UNCHANGED <<main, hc, multi, dp, md, wr, rs, mw, lw>>

\* Variant of the readiness test below that does not accept an object that
\* is being deleted.
PodIsReadyObject_NotTerminating(k) ==
    k.phase = "Running" /\ k.ready /\ ~k.terminating

\* The readiness test on the object read_namespaced_pod returned: phase and
\* Ready condition, nothing else of the object.
PodIsReadyObject(k) == k.phase = "Running" /\ k.ready

\* One iteration of the polling loop of _wait_for_pod_ready.
WaitReadyPoll ==
    /\ kp.pc = "WAIT_READY"
    /\ kp' =
         IF kp.dry_run THEN [kp EXCEPT !.pc = "RETURNED"]
         ELSE IF ~kp.exists
         THEN LET e == [kp EXCEPT !.consecutive_errors = @ + 1,
                                  !.ready_polls = 0]
              IN  IF e.consecutive_errors >= max_consecutive_errors
                  THEN PodOperationRetry(e)
                  ELSE e
         ELSE IF PodIsReadyObject(kp)
         THEN IF kp.ready_polls + 1 >= StablePolls
              THEN [kp EXCEPT !.pc = "RETURNED", !.consecutive_errors = 0,
                              !.ready_polls = @ + 1, !.stable_uid = kp.uid]
              ELSE [kp EXCEPT !.consecutive_errors = 0, !.ready_polls = @ + 1]
         ELSE [kp EXCEPT !.consecutive_errors = 0, !.ready_polls = 0]
    /\ UNCHANGED <<main, hc, multi, dp, md, wr, rs, mw, lw>>

\* "raise TimeoutError(error_msg)" after the loop
WaitReadyTimeout ==
    /\ kp.pc = "WAIT_READY"
    /\ ~kp.dry_run
    /\ kp' = PodOperationRetry(kp)
    /\ UNCHANGED <<main, hc, multi, dp, md, wr, rs, mw, lw>>

\* Kubernetes: the containers of a terminating pod stop.
KubeletStops ==
    /\ kp.exists /\ kp.terminating /\ kp.ready
    /\ kp' = [kp EXCEPT !.ready = FALSE]
    /\ UNCHANGED <<main, hc, multi, dp, md, wr, rs, mw, lw>>

\* Kubernetes: the terminating pod object is removed.
KubeletRemoves ==
    /\ kp.exists /\ kp.terminating
    /\ kp' = [kp EXCEPT !.exists = FALSE]
    /\ UNCHANGED <<main, hc, multi, dp, md, wr, rs, mw, lw>>

\* Kubernetes: the StatefulSet creates a new pod object of the same name.
StatefulSetRecreates ==
    /\ ~kp.exists
    /\ kp.uid < MaxIncarnation
    /\ kp' = [kp EXCEPT !.exists = TRUE, !.uid = @ + 1, !.terminating = FALSE,
                        !.phase = "Pending", !.ready = FALSE]
    /\ UNCHANGED <<main, hc, multi, dp, md, wr, rs, mw, lw>>

\* Kubernetes: the new pod starts and passes its readiness probe.
PodStarts ==
    /\ kp.exists /\ kp.phase = "Pending"
    /\ kp' = [kp EXCEPT !.phase = "Running", !.ready = TRUE]
    /\ UNCHANGED <<main, hc, multi, dp, md, wr, rs, mw, lw>>

----------------------------------------------------------------------------
(* CrateDBActivities.check_maintenance_window and MaintenanceWindowChecker *)

\* The clock: a week of WeekDays days of DaySlots slots; a datetime is a
\* day number and a slot of that day, durations are counted in slots.
WeekDays == 3
DaySlots == 3
SearchDays == 4                  \* timedelta(days=35), in days of this clock

Instant(day, slot) == (day * DaySlots) + slot
NoInstant == 0 - 1               \* next_window_start is None

\* A weekday name that is not in WEEKDAY_MAP.
NoWeekday == WeekDays

\* MaintenanceWindow: start_time, end_time and weekdays ({} for None);
\* ordinal_days is None.
MaintenanceWindows ==
    [start_time : 0..(DaySlots - 1), end_time : 0..(DaySlots - 1),
     weekdays : {{}, {1}, {NoWeekday}}]

\* _is_time_in_window, for a window without ordinal_days
IsTimeInWindow(day, slot, window) ==
    /\ IF window.end_time <= window.start_time
       THEN slot >= window.start_time \/ slot <= window.end_time
       ELSE window.start_time <= slot /\ slot <= window.end_time
    /\ window.weekdays # {} => (day % WeekDays) \in window.weekdays

\* is_in_maintenance_window
is_in_maintenance_window(config, day, slot) ==
    /\ config.has_entry
    /\ \E k \in DOMAIN config.windows : IsTimeInWindow(day, slot, config.windows[k])

\* get_next_maintenance_window: the days from from_time on, the windows in
\* list order on each, the first window start that is later than from_time.
get_next_maintenance_window(config, day, slot) ==
    LET Found == {c \in (day..(day + SearchDays)) \X DOMAIN config.windows :
                    LET window == config.windows[c[2]]
                    IN  /\ IsTimeInWindow(c[1], window.start_time, window)
                        /\ Instant(c[1], window.start_time) > Instant(day, slot)}
        first == CHOOSE c \in Found :
                   \A o \in Found : c[1] < o[1] \/ (c[1] = o[1] /\ c[2] <= o[2])
    IN  IF ~config.has_entry \/ Found = {} THEN NoInstant
        ELSE Instant(first[1], config.windows[first[2]].start_time)

\* Variant of the decision below that proceeds when the next window opens
\* within min_window_duration.
should_wait_for_maintenance_window_ProceedWhenSoon(config, day, slot) ==
    LET next_window_start == get_next_maintenance_window(config, day, slot)
        time_until_window == next_window_start - Instant(day, slot)
    IN  CASE ~config.has_entry -> [should_wait |-> FALSE, reason |-> "no configuration"]
          [] config.windows = <<>> -> [should_wait |-> FALSE, reason |-> "no windows"]
          [] is_in_maintenance_window(config, day, slot) ->
               [should_wait |-> FALSE, reason |-> "in window"]
          [] next_window_start # NoInstant
               /\ time_until_window <= config.min_window_duration ->
               [should_wait |-> FALSE, reason |-> "upcoming"]
          [] next_window_start # NoInstant -> [should_wait |-> TRUE, reason |-> "outside"]
          [] OTHER -> [should_wait |-> TRUE, reason |-> "indefinitely"]

\* should_wait_for_maintenance_window
should_wait_for_maintenance_window(config, day, slot) ==
    LET next_window_start == get_next_maintenance_window(config, day, slot)
        time_until_window == next_window_start - Instant(day, slot)
    IN  CASE ~config.has_entry -> [should_wait |-> FALSE, reason |-> "no configuration"]
          [] config.windows = <<>> -> [should_wait |-> FALSE, reason |-> "no windows"]
          [] is_in_maintenance_window(config, day, slot) ->
               [should_wait |-> FALSE, reason |-> "in window"]
          [] next_window_start # NoInstant
               /\ time_until_window <= config.min_window_duration ->
               [should_wait |-> TRUE, reason |-> "upcoming"]
          [] next_window_start # NoInstant -> [should_wait |-> TRUE, reason |-> "outside"]
          [] OTHER -> [should_wait |-> TRUE, reason |-> "indefinitely"]

\* The window lists of the configurations: none, one window, two windows.
WindowLists ==
    {<<>>} \cup {<<w>> : w \in MaintenanceWindows}
           \cup {<<w, v>> : w \in MaintenanceWindows,
                            v \in {x \in MaintenanceWindows : x.weekdays = {}}}

\* MaintenanceWindowCheckInput with what the configuration file holds for
\* the cluster, and how reading it goes: "none", or the FileNotFoundError
\* of _load_config, or another error of loading, or an error raised by one
\* of the checker's methods.
NoConfig == [has_entry |-> FALSE, windows |-> <<>>, min_window_duration |-> 1]

WindowCheckInputs ==
    {[config_path |-> FALSE, raises |-> "none", config |-> NoConfig,
      day |-> 0, slot |-> 0]}
    \cup [config_path : {TRUE}, raises : {"none"}, config : {NoConfig},
          day : 0..(WeekDays - 1), slot : {0}]
    \cup [config_path : {TRUE}, raises : {"none"},
          config : [has_entry : {TRUE}, windows : WindowLists,
                    min_window_duration : {1, 2}],
          day : 0..(WeekDays - 1), slot : 0..(DaySlots - 1)]
    \cup [config_path : {TRUE},
          raises : {"FileNotFoundError", "load", "evaluate"},
          config : [has_entry : {TRUE},
                    windows : {<<w>> : w \in MaintenanceWindows},
                    min_window_duration : {1}],
          day : {0}, slot : 0..(DaySlots - 1)]

\* Variant of the activity below that waits when the check raised.
check_maintenance_window_FailClosed(input_data) ==
    IF ~input_data.config_path
    THEN [should_wait |-> FALSE, reason |-> "no path", in_maintenance_window |-> FALSE,
          next_window_start |-> NoInstant]
    ELSE IF input_data.raises # "none"
    THEN [should_wait |-> TRUE, reason |-> input_data.raises,
          in_maintenance_window |-> FALSE, next_window_start |-> NoInstant]
    ELSE LET decision == should_wait_for_maintenance_window(
                             input_data.config, input_data.day, input_data.slot)
         IN  [should_wait |-> decision.should_wait, reason |-> decision.reason,
              in_maintenance_window |->
                  is_in_maintenance_window(input_data.config, input_data.day,
                                           input_data.slot),
              next_window_start |->
                  get_next_maintenance_window(input_data.config, input_data.day,
                                              input_data.slot)]

\* check_maintenance_window: the MaintenanceWindowCheckResult
check_maintenance_window(input_data) ==
    IF ~input_data.config_path
    THEN [should_wait |-> FALSE, reason |-> "no path", in_maintenance_window |-> FALSE,
          next_window_start |-> NoInstant]
    ELSE IF input_data.raises # "none"
    THEN [should_wait |-> FALSE, reason |-> input_data.raises,
          in_maintenance_window |-> FALSE, next_window_start |-> NoInstant]
    ELSE LET decision == should_wait_for_maintenance_window(
                             input_data.config, input_data.day, input_data.slot)
         IN  [should_wait |-> decision.should_wait, reason |-> decision.reason,
              in_maintenance_window |->
                  is_in_maintenance_window(input_data.config, input_data.day,
                                           input_data.slot),
              next_window_start |->
                  get_next_maintenance_window(input_data.config, input_data.day,
                                              input_data.slot)]

NewWindowCheck == [pc |-> "IDLE"]

\* The activity is invoked and returns its result.
WindowCheck ==
    /\ mw.pc = "IDLE"
    /\ \E input_data \in WindowCheckInputs :
         mw' = [pc |-> "RETURNED", input_data |-> input_data,
                result |-> check_maintenance_window(input_data)]
    /\ UNCHANGED <<main, hc, multi, dp, md, wr, rs, kp, lw>>

----------------------------------------------------------------------------
(* ClusterRestartWorkflow (rr/workflows.py), the per-cluster workflow that *)
(* MultiClusterRestartWorkflow starts with execute_child_workflow          *)

MaxAttemptsRestartPod == 2

NewClusterRestartWorkflow ==
    [pc |-> "NOT_STARTED",
     has_dc_util |-> FALSE,
     dry_run |-> FALSE,
     total_pods |-> 0,                \* len(cluster.pods)
     i |-> 0,                         \* position in cluster.pods
     attempt |-> 0,                   \* attempt of restart_pod
     restarted_pods |-> <<>>,
     invoked |-> {},                  \* the activities executed so far
     routing |-> "all",               \* cluster.routing.allocation.enable
     result |-> NoRecord]

\* "return RestartResult(...)", in the body and in the except clause
RestartResult(w, success) ==
    [w EXCEPT !.pc = "RETURNED",
              !.result = [returned |-> TRUE, success |-> success,
                          restarted_pods |-> w.restarted_pods,
                          total_pods |-> w.total_pods]]

\* execute_activity(name, ...) is reached
Executes(w, name) == [w EXCEPT !.invoked = @ \cup {name}]

\* The child workflow is started on a discovered cluster.
LegacyRun ==
    /\ lw.pc = "NOT_STARTED"
    /\ \E has_dc_util, dry_run, maintenance \in BOOLEAN, n \in 1..NPods :
         LET w == [lw EXCEPT !.has_dc_util = has_dc_util, !.dry_run = dry_run,
                             !.total_pods = n]
         IN  lw' = IF maintenance
                   THEN Executes([w EXCEPT !.pc = "MAINTENANCE"],
                                 "check_maintenance_window")
                   ELSE Executes([w EXCEPT !.pc = "VALIDATE"], "validate_cluster")
    /\ UNCHANGED <<main, hc, multi, dp, md, wr, rs, kp, mw>>

\* check_maintenance_window returned or failed for good; while it says
\* wait and no force_restart arrived, the workflow sleeps and asks again.
LegacyMaintenance ==
    /\ lw.pc = "MAINTENANCE"
    /\ \E outcome \in {"proceed", "wait", "raised"} :
         lw' = CASE outcome = "proceed" ->
                      Executes([lw EXCEPT !.pc = "VALIDATE"], "validate_cluster")
                 [] outcome = "wait" -> lw
                 [] OTHER -> RestartResult(lw, FALSE)
    /\ UNCHANGED <<main, hc, multi, dp, md, wr, rs, kp, mw>>

\* validate_cluster returned
LegacyValidate ==
    /\ lw.pc = "VALIDATE"
    /\ \E is_valid \in BOOLEAN :
         lw' = IF is_valid
               THEN Executes([lw EXCEPT !.pc = "INITIAL_HEALTH"],
                             "check_cluster_health")
               ELSE RestartResult(lw, FALSE)
    /\ UNCHANGED <<main, hc, multi, dp, md, wr, rs, kp, mw>>

\* execute_activity(CrateDBActivities.restart_pod, ...) for position i
LegacyRestart(w, i) ==
    Executes([w EXCEPT !.pc = "RESTART_POD", !.i = i, !.attempt = 1], "restart_pod")

\* The initial health check and its second look: GREEN or tolerated, or
\* RED / UNREACHABLE, which ends the run.
LegacyInitialHealth ==
    /\ lw.pc = "INITIAL_HEALTH"
    /\ \E blocked \in BOOLEAN :
         lw' = IF blocked THEN RestartResult(lw, FALSE) ELSE LegacyRestart(lw, 1)
    /\ UNCHANGED <<main, hc, multi, dp, md, wr, rs, kp, mw>>

\* restart_pod ended: PodRestartResult with success or not, or the attempt
\* was lost and is retried.  Outside dry-run a successful restart_pod of a
\* cluster without dc_util has run the manual decommission, whose first
\* statement sets the routing allocation to new_primaries.
LegacyRestartPodDone ==
    /\ lw.pc = "RESTART_POD"
    /\ \E outcome \in {"success", "failure", "lost"}, decommission_started \in BOOLEAN :
         LET sets == /\ ~lw.dry_run /\ ~lw.has_dc_util
                     /\ (decommission_started \/ outcome = "success")
             w == [lw EXCEPT !.routing = IF sets THEN "new_primaries" ELSE @]
         IN  lw' =
               CASE outcome = "success" ->
                      LET r == [w EXCEPT !.restarted_pods = Append(@, w.i)]
                      IN  IF r.i < r.total_pods
                          THEN Executes([r EXCEPT !.pc = "INTER_HEALTH"],
                                        "check_cluster_health")
                          ELSE Executes([r EXCEPT !.pc = "FINAL_HEALTH"],
                                        "check_cluster_health")
                 [] outcome = "failure" -> RestartResult(w, FALSE)
                 [] OTHER ->
                      IF w.attempt >= MaxAttemptsRestartPod
                      THEN RestartResult(w, FALSE)
                      ELSE [w EXCEPT !.attempt = @ + 1]
    /\ UNCHANGED <<main, hc, multi, dp, md, wr, rs, kp, mw>>

\* The health check after a pod that is not the last
LegacyInterHealth ==
    /\ lw.pc = "INTER_HEALTH"
    /\ \E green \in BOOLEAN :
         lw' = IF green THEN LegacyRestart(lw, lw.i + 1)
               ELSE RestartResult(lw, FALSE)
    /\ UNCHANGED <<main, hc, multi, dp, md, wr, rs, kp, mw>>

\* The final health check
LegacyFinalHealth ==
    /\ lw.pc = "FINAL_HEALTH"
    /\ \E green \in BOOLEAN : lw' = RestartResult(lw, green)
    /\ UNCHANGED <<main, hc, multi, dp, md, wr, rs, kp, mw>>

----------------------------------------------------------------------------

Init ==
    /\ cluster \in [name : ClusterNames,
                    pods : {[i \in 1..NPods |-> i]},
                    has_dc_util : BOOLEAN,
                    suspended : BOOLEAN]
    /\ options \in [dry_run : BOOLEAN,
                    only_on_suspended_nodes : BOOLEAN,
                    ignore_maintenance_windows : BOOLEAN,
                    maintenance_config_path : BOOLEAN]
    /\ crsm = NewClusterRestart
    /\ record = NoRecord
    /\ pod = [p \in Pods |-> NewPod]
    /\ gate = NewGate
    /\ routing = "all"
    /\ hc = NewHealthCheck
    /\ multi = NewMulti
    /\ dp = NewDelete
    /\ md = NewManualDecommission
    /\ wr = NewWait
    /\ rs = NewReset
    /\ kp = NewPodObject
    /\ mw = NewWindowCheck
    /\ lw = NewClusterRestartWorkflow

PodStep ==
    \E p \in Pods :
        \/ PodHealthCheck(p)
        \/ PodDecommission(p)
        \/ PodDecommissionTimeout(p)
        \/ PodDelete(p)
        \/ PodWaitReady(p)
        \/ PodResetRouting(p)

GateStep ==
    \/ GateCheck
    \/ GateCheckTimeout
    \/ GateOverride
    \/ GateWaitTimeout
    \/ GateForceRestart

ClusterStep ==
    \/ Run
    \/ MaintenanceCheckDone
    \/ Validation
    \/ InitialHealth
    \/ InitialHealthExcept
    \/ PauseEnds
    \/ PauseTimeout
    \/ NodeCheck
    \/ PodRestartDone
    \/ Stabilized
    \/ InterHealth
    \/ FinalHealthDone

Signal ==
    \/ force_restart
    \/ pause_restart
    \/ resume_restart
    \/ cancel_restart

Next == ClusterStep \/ PodStep \/ GateStep \/ Signal

Spec == Init /\ [][Next]_vars

\* One Health-Gate run by itself; its activity attempts end.
HealthNext == HealthCheckReturns \/ HealthCheckRaises

HealthSpec == Init /\ [][HealthNext]_vars /\ WF_vars(HealthNext)

\* One MultiClusterRestartWorkflow run by itself.
MultiNext == MultiDiscover \/ MultiChildEnds

MultiSpec == Init /\ [][MultiNext]_vars

\* One invocation of delete_pod or restart_pod by itself.
DeleteNext ==
    \/ DeleteInvoke
    \/ DeleteHealthRead
    \/ DeleteDecommission
    \/ DeleteCall
    \/ DeleteWait

DeleteSpec == Init /\ [][DeleteNext]_vars

\* One invocation of decommission_pod by itself.
DecommissionNext ==
    \/ DecommissionInvoke
    \/ DecommissionHealthRead
    \/ DecommissionStatement
    \/ DecommissionPid1Wait

DecommissionSpec == Init /\ [][DecommissionNext]_vars

\* The WAIT_READY activity by itself.
WaitNext == WaitPoll

WaitSpec == Init /\ [][WaitNext]_vars

\* An invocation of the routing reset routine by itself.
ResetNext == ResetInvoke \/ ResetExec

ResetSpec == Init /\ [][ResetNext]_vars

\* One pod's DELETE and WAIT_READY states and the cluster's reaction.
PodObjectNext ==
    \/ EnterDelete \/ DeletePodAttempt \/ WaitReadyPoll \/ WaitReadyTimeout
    \/ KubeletStops \/ KubeletRemoves \/ StatefulSetRecreates \/ PodStarts

PodObjectSpec == Init /\ [][PodObjectNext]_vars

\* An invocation of the maintenance window check by itself.
WindowCheckNext == WindowCheck

WindowCheckSpec == Init /\ [][WindowCheckNext]_vars

\* The per-cluster workflow of the multi-cluster orchestrator by itself.
LegacyNext ==
    \/ LegacyRun \/ LegacyMaintenance \/ LegacyValidate \/ LegacyInitialHealth
    \/ LegacyRestartPodDone \/ LegacyInterHealth \/ LegacyFinalHealth

LegacySpec == Init /\ [][LegacyNext]_vars

\* The gate's workflow tasks run: an activity attempt ends or times out, the
\* 300 s timer fires, a satisfied wait condition resumes run().
GateProgress == GateCheck \/ GateCheckTimeout \/ GateOverride \/ GateWaitTimeout

FairSpec == Spec /\ WF_vars(GateProgress)

----------------------------------------------------------------------------
(* Properties *)

\* Position of a pod in cluster.pods.
PodIndex(p) == CHOOSE k \in DOMAIN cluster.pods : cluster.pods[k] = p

\* The pod's workflow instance has scheduled the activity of state s.
Entered(p, s) == s \in Range(pod[p].states)

Started(p) == pod[p].pc # "NOT_STARTED"

\* C1: delete_pod is invoked for a pod only if, in the same pod workflow
\* instance, the Health-Gate returned GREEN and decommission_pod returned
\* success=true; if either failed, DELETE is never entered in that instance.
C1_DeleteOnlyAfterGreenAndDecommission ==
    \A p \in Pods :
        /\ Entered(p, "DELETE") =>
              /\ pod[p].health_green
              /\ pod[p].decommission_success
              /\ IsPrefix(<<"HEALTH_CHECK", "DECOMMISSION", "DELETE">>, pod[p].states)
        /\ (pod[p].pc = "RETURNED" /\ pod[p].error \in {"health", "decommission"}) =>
              ~Entered(p, "DELETE")

\* A delete_pod attempt is under way after a real decommission.
C1_Witness ==
    \E p \in Pods :
        /\ pod[p].pc = "DELETE"
        /\ ~options.dry_run
        /\ pod[p].set_new_primaries

\* C2: at most one pod-restart child is in flight at any time, and the child
\* of a pod is not started before the children of all earlier pods returned.
C2_OnePodRestartInFlight ==
    \A p, q \in Pods :
        /\ (p # q /\ InFlight(p)) => ~InFlight(q)
        /\ (PodIndex(p) < PodIndex(q) /\ Started(q)) => ~InFlight(p)
        /\ InFlight(p) => (crsm.pc = "POD_RESTART" /\ crsm.current_pod = p)

\* The second pod's delete is under way after the first pod's child returned.
C2_Witness ==
    \E p, q \in Pods :
        /\ PodIndex(p) < PodIndex(q)
        /\ pod[p].pc = "RETURNED"
        /\ pod[q].pc = "DELETE"

\* C3: when the manual decommission of a pod restart has set the routing to
\* new_primaries, reset_cluster_routing_allocation is invoked in that pod
\* restart at least once, also when DELETE or WAIT_READY fails.
\* Does not hold: RESET_ROUTING is entered only after WAIT_READY succeeded,
\* and the failure path returns without it.
C3_ResetAfterNewPrimaries ==
    \A p \in Pods :
        (pod[p].pc = "RETURNED" /\ pod[p].set_new_primaries) =>
            Entered(p, "RESET_ROUTING")

\* C4: RESET_ROUTING is invoked iff has_dc_util is false and
\* wait_for_pod_ready succeeded; it comes right after WAIT_READY and before
\* COMPLETE, and a failing reset is attempted at most 2 times.
C4_ResetRoutingWhenAndHowOften ==
    \A p \in Pods :
        /\ Entered(p, "RESET_ROUTING") <=> (~cluster.has_dc_util /\ pod[p].wait_ready_ok)
        /\ Entered(p, "RESET_ROUTING") =>
              /\ Len(pod[p].states) >= 5
              /\ pod[p].states[4] = "WAIT_READY"
              /\ pod[p].states[5] = "RESET_ROUTING"
              /\ \A k \in DOMAIN pod[p].states :
                     pod[p].states[k] = "COMPLETE" => k = 6
        /\ (Entered(p, "COMPLETE") /\ ~cluster.has_dc_util) => Entered(p, "RESET_ROUTING")
        /\ pod[p].pc = "RESET_ROUTING" => pod[p].attempt \in 1..2

\* The second and last attempt of a failing reset is under way.
C4_Witness ==
    \E p \in Pods :
        /\ pod[p].pc = "RESET_ROUTING"
        /\ pod[p].attempt = 2
        /\ pod[p].wait_ready_ok
        /\ ~cluster.has_dc_util

\* The pods the loop has restarted or skipped so far, counted.
Handled == Len(crsm.restarted_pods) + Len(crsm.skipped_pods)

\* The pods the loop has not finished yet: those after the handled ones.
Remaining == {cluster.pods[k] : k \in (Handled + 1)..Len(cluster.pods)}

\* restarted \sqcup skipped \sqcup remaining = all, for two lists and a set.
Partition(restarted, skipped, remaining, all) ==
    /\ NoDuplicates(restarted)
    /\ NoDuplicates(skipped)
    /\ Range(restarted) \cap Range(skipped) = {}
    /\ Range(restarted) \cap remaining = {}
    /\ Range(skipped) \cap remaining = {}
    /\ Range(restarted) \cup Range(skipped) \cup remaining = all
    /\ Len(restarted) + Len(skipped) + Cardinality(remaining) = Cardinality(all)

\* C5: at every point of a run restarted_pods and skipped_pods are disjoint
\* subsets of cluster.pods, and cluster.pods is the disjoint union of the
\* two and the pods not yet finished; the same holds of the returned record,
\* on failure and cancellation too.
C5_PodListsPartitionClusterPods ==
    /\ Range(crsm.restarted_pods) \subseteq Range(cluster.pods)
    /\ Range(crsm.skipped_pods) \subseteq Range(cluster.pods)
    /\ Partition(crsm.restarted_pods, crsm.skipped_pods, Remaining, Range(cluster.pods))
    /\ record.returned =>
         /\ record.total_pods = Cardinality(Range(cluster.pods))
         /\ Partition(record.restarted_pods, record.skipped_pods, Remaining,
                      Range(cluster.pods))

\* A failure or cancellation record with a restarted pod, a skipped pod and
\* a pod never reached.
C5_Witness ==
    /\ record.returned
    /\ ~record.success
    /\ record.restarted_pods # <<>>
    /\ record.skipped_pods # <<>>
    /\ Remaining # {}

Increasing(seq) ==
    \A j, k \in DOMAIN seq : j < k => PodIndex(seq[j]) < PodIndex(seq[k])

\* C6: pods are processed in cluster.pods order: the pods restarted or
\* skipped form a prefix of cluster.pods, both lists keep the list order, and
\* a pod is handled only after all pods before it were restarted or skipped.
C6_PodsInListOrder ==
    /\ Range(crsm.restarted_pods) \cup Range(crsm.skipped_pods)
         = {cluster.pods[k] : k \in 1..Handled}
    /\ Increasing(crsm.restarted_pods)
    /\ Increasing(crsm.skipped_pods)
    /\ \A p, q \in Pods :
         (PodIndex(q) < PodIndex(p) /\ Started(p)) =>
             q \in Range(crsm.restarted_pods) \cup Range(crsm.skipped_pods)
    /\ \A q \in Pods :
         (crsm.current_pod # NoPod /\ PodIndex(q) < PodIndex(crsm.current_pod)) =>
             q \in Range(crsm.restarted_pods) \cup Range(crsm.skipped_pods)

\* Two pods restarted around a skipped one.
C6_Witness ==
    /\ Len(crsm.restarted_pods) >= 2
    /\ Len(crsm.skipped_pods) >= 1

\* The states a pod restart runs through on this cluster.
StateOrder ==
    IF cluster.has_dc_util
    THEN <<"HEALTH_CHECK", "DECOMMISSION", "DELETE", "WAIT_READY", "COMPLETE">>
    ELSE PodStates

\* The state whose failure the error of a PodRestartResult names.
FailedState(e) ==
    CASE e = "health" -> "HEALTH_CHECK"
      [] e = "decommission" -> "DECOMMISSION"
      [] e = "delete" -> "DELETE"
      [] e = "wait_ready" -> "WAIT_READY"
      [] OTHER -> "NONE"

\* C7: a pod restart runs its states only in the order HEALTH_CHECK,
\* DECOMMISSION, DELETE, WAIT_READY, RESET_ROUTING, COMPLETE; when the health
\* gate, decommission, delete or wait-ready fails, no later state is entered,
\* the result has success=false, and the parent stops without restarting a
\* further pod.
C7_StrictStatesAndFailureStops ==
    \A p \in Pods :
        /\ IsPrefix(pod[p].states, StateOrder)
        /\ (pod[p].pc = "RETURNED" /\ pod[p].error # NoError) =>
              /\ ~pod[p].success
              /\ pod[p].states # <<>>
              /\ pod[p].states[Len(pod[p].states)] = FailedState(pod[p].error)
              /\ p \notin Range(crsm.restarted_pods)
              /\ \A q \in Pods : PodIndex(q) > PodIndex(p) => ~Started(q)
              /\ crsm.pc \in {"POD_RESTART", "RETURNED"}
              /\ record.returned => (~record.success /\ record.error = "pod_restart")
        /\ (pod[p].pc = "RETURNED" /\ pod[p].error = NoError) =>
              (pod[p].success /\ Entered(p, "COMPLETE"))

\* The run returned after the first pod's wait-ready failed for good.
C7_Witness ==
    \E p \in Pods :
        /\ pod[p].pc = "RETURNED"
        /\ pod[p].error = "wait_ready"
        /\ record.returned
        /\ Remaining # {}

\* The reset of the pod's restart was given up.
ResetGivenUp(p) ==
    /\ Entered(p, "RESET_ROUTING")
    /\ pod[p].pc = "RETURNED"
    /\ ~pod[p].reset_ok

\* C8: a reset that fails for good does not fail the pod restart: the result
\* has success=true, and the parent appends the pod to restarted_pods and
\* goes on.
C8_ResetFailureNotFatal ==
    \A p \in Pods :
        ResetGivenUp(p) =>
            /\ pod[p].success
            /\ pod[p].error = NoError
            /\ Entered(p, "COMPLETE")
            /\ (crsm.pc = "POD_RESTART" /\ crsm.current_pod = p)
                 \/ p \in Range(crsm.restarted_pods)
            /\ (record.returned /\ record.error = "pod_restart") => crsm.current_pod # p

\* After a reset given up the pod is listed and the next pod's restart began.
C8_Witness ==
    \E p, q \in Pods :
        /\ ResetGivenUp(p)
        /\ p \in Range(crsm.restarted_pods)
        /\ PodIndex(p) < PodIndex(q)
        /\ Started(q)

\* The errors of a failure record, one per step that can fail.
FailureSteps ==
    {"maintenance", "validation", "initial_health", "pod_restart",
     "inter_health", "final_health", "pause"}

\* C9: run() never raises: whichever step fails, it returns a record with
\* success=false, an error, and restarted_pods and skipped_pods holding
\* exactly the pods restarted and skipped before the failure.
C9_FailureIsReturnedNotRaised ==
    /\ crsm.pc # "RAISED"
    /\ record.returned <=> crsm.pc = "RETURNED"
    /\ record.returned =>
         /\ record.error \in FailureSteps \cup {NoError}
         /\ record.error # NoError => ~record.success
         /\ Range(record.restarted_pods) =
              {p \in Pods : pod[p].pc = "RETURNED" /\ pod[p].success}
         /\ record.restarted_pods = crsm.pods_completed
         /\ record.skipped_pods = crsm.self_skipped_pods
         /\ \A p \in Range(record.skipped_pods) : ~Started(p)
         /\ gate.pc = "FAILED" => record.error = "maintenance"
         /\ (gate.pc # "FAILED" /\ ~validate_cluster(cluster)) =>
              record.error = "validation"
         /\ (\E p \in Pods : pod[p].pc = "RETURNED" /\ ~pod[p].success) =>
              record.error = "pod_restart"

\* A failure record of the inter-pod gate, after one pod restarted and one
\* skipped.
C9_Witness ==
    /\ record.returned
    /\ record.error = "inter_health"
    /\ record.restarted_pods # <<>>
    /\ record.skipped_pods # <<>>

\* C10: once cancel_restart was received no pod-restart child is started for
\* any further pod, and the pod restart in flight at that time runs on and,
\* returning success, is recorded in restarted_pods.
\* Does not hold: the flag is not read again after the node check, so a
\* cancel received during NODE_CHECK is followed by a started child.
C10_NoPodRestartAfterCancel ==
    [][crsm.cancel_signal =>
          /\ \A p \in Pods : ~Started(p) => ~Started(p)'
          /\ \A p \in Pods :
               (InFlight(p) /\ ~InFlight(p)' /\ pod'[p].success) =>
                   /\ crsm'.pc = "POD_RESTART"
                   /\ crsm'.current_pod = p
          /\ (crsm.pc = "POD_RESTART" /\ crsm'.pc # "POD_RESTART"
                /\ pod[crsm.current_pod].success) =>
               crsm.current_pod \in Range(crsm'.restarted_pods)
      ]_vars

\* C11: the returned record has success=true iff the run reached COMPLETE
\* without a failure and cancel_restart was never received; when the cancel
\* was received before the record is built, the record has cancelled=true and
\* success=false, and restarted_pods holds the pods completed before the loop
\* was left.
C11_SuccessIffCompleteAndNotCancelled ==
    record.returned =>
        /\ record.success <=> (record.error = NoError /\ ~crsm.cancel_signal)
        /\ record.cancelled <=> crsm.cancel_signal
        /\ crsm.cancel_signal => (record.cancelled /\ ~record.success)
        /\ record.restarted_pods = crsm.pods_completed
        /\ Range(record.restarted_pods) =
             {p \in Pods : pod[p].pc = "RETURNED" /\ pod[p].success}
        /\ record.success =>
             /\ Remaining = {}
             /\ \A p \in Pods : Started(p) => pod[p].success

\* A cancelled run returned at COMPLETE with one pod restarted and pods left.
C11_Witness ==
    /\ record.returned
    /\ record.cancelled
    /\ ~record.success
    /\ record.error = NoError
    /\ Len(record.restarted_pods) = 1
    /\ Remaining # {}

\* C12: while pause_restart is latched and neither resume_restart nor
\* cancel_restart was received, no pod-restart child is started; after the
\* resume the run goes on with the pod it halted before, so that a pause
\* neither skips nor repeats a pod.
\* Does not hold: the flag is read at the head of the loop only, so a pause
\* received during NODE_CHECK is followed by a started child.
C12_NoPodRestartWhilePaused ==
    [][/\ (crsm.pause_signal /\ ~crsm.cancel_signal) =>
             \A p \in Pods : ~Started(p) => ~Started(p)'
       /\ (crsm.pc = "PAUSED" /\ crsm'.pc \notin {"PAUSED", "RETURNED", "FINAL_HEALTH"}) =>
             /\ crsm'.i = crsm.i
             /\ crsm'.current_pod = cluster.pods[crsm.i]
             /\ crsm'.restarted_pods = crsm.restarted_pods
             /\ crsm'.skipped_pods = crsm.skipped_pods
      ]_vars

\* C13: while the run is halted by a pause before pod p_k, after p_0..p_{k-1}
\* completed, get_status returns current_pod = p_k, pods_completed =
\* [p_0..p_{k-1}] and paused = true.
\* Does not hold: current_pod is assigned after the pause wait, so the query
\* still shows the pod of the iteration before (or no pod).
C13_StatusWhilePaused ==
    (crsm.pc = "PAUSED" /\ crsm.pause_signal /\ crsm.skipped_pods = <<>>) =>
        /\ get_status(crsm).current_pod = cluster.pods[crsm.i]
        /\ get_status(crsm).pods_completed = SubSeq(cluster.pods, 1, crsm.i - 1)
        /\ get_status(crsm).paused

\* C14: a force_restart received by the cluster restart while it is blocked
\* in MAINTENANCE_CHECK, its gate waiting outside the window, is forwarded to
\* the gate, which then returns the operator override, and the run proceeds
\* to VALIDATION without waiting for a window.
\* Does not hold: the handler sets the parent's own fields only; the gate's
\* flag stays unset and the gate goes on waiting for a window.
C14_ForceRestartForwardedToGate ==
    [][(/\ crsm.pc = "MAINTENANCE_CHECK"
        /\ gate.pc = "WAIT"
        /\ ~crsm.force_restart_signal
        /\ crsm'.force_restart_signal) =>
           /\ gate'.force_restart_signal
           /\ gate'.force_restart_reason = crsm'.force_restart_reason
      ]_vars

\* How a returned gate came to return.
GateReturnedByCheck ==
    /\ ~gate.check_should_wait
    /\ gate.reason = "window"
GateReturnedByOverride ==
    /\ gate.check_should_wait
    /\ gate.force_restart_signal
    /\ gate.reason = "Operator override: " \o gate.force_restart_reason

\* C15: the gate returns only a result with should_wait=false, and only
\* because a check returned should_wait=false or because the gate itself
\* received force_restart after a check said to wait, the reason then being
\* "Operator override: " and the signal's reason; a force_restart received by
\* the gate during the wait or a re-check ends the wait; without either event
\* the gate does not return.
C15_GateReturnsByWindowOrOverride ==
    /\ [](gate.pc = "RETURNED" =>
            /\ ~gate.should_wait
            /\ GateReturnedByCheck \/ GateReturnedByOverride)
    /\ [][(gate.pc = "WAIT" /\ gate'.pc = "RETURNED") => gate.force_restart_signal]_vars
    /\ [][(gate.pc = "WAIT" /\ gate'.pc # "WAIT" /\ ~gate.force_restart_signal) =>
             gate'.pc = "RECHECK"]_vars
    /\ (gate.pc \in {"WAIT", "RECHECK"} /\ gate.force_restart_signal)
           ~> (gate.pc \in {"RETURNED", "FAILED"})

\* The gate returned the operator override.
C15_Witness ==
    /\ gate.pc = "RETURNED"
    /\ gate.reason = "Operator override: emergency"
    /\ crsm.pc = "VALIDATION"

\* C16: a Health-Gate run ends after at most 30 check_cluster_health
\* attempts: it returns at the first attempt that observes GREEN, fails when
\* all 30 attempts raised, and never returns a result whose symbol is not
\* GREEN or whose is_healthy is false.
C16_HealthGateWithin30Attempts ==
    /\ [](/\ hc.attempt \in 1..30
          /\ hc.raised <= 30
          /\ hc.pc \in {"CHECK", "RETURNED"} => hc.raised = hc.attempt - 1
          /\ hc.pc = "RETURNED" =>
               /\ hc.result.health_status = "GREEN"
               /\ hc.result.is_healthy
               /\ hc.observed = "GREEN"
          /\ hc.pc # "RETURNED" => (hc.result = NoResult /\ hc.observed # "GREEN")
          /\ hc.pc = "FAILED" =>
               /\ hc.attempt = 30
               /\ hc.raised = 30
               /\ hc.error_status = "UNKNOWN")
    /\ <>(hc.pc \in {"RETURNED", "FAILED"})

\* GREEN at the third attempt, after two that raised.
C16_Witness ==
    /\ hc.pc = "RETURNED"
    /\ hc.attempt = 3
    /\ hc.raised = 2
    /\ ~options.dry_run

\* C17: when the initial Health-Gate fails, the run ends with a failure, no
\* pod touched, iff the symbol observed last was RED or UNREACHABLE; with
\* YELLOW or UNKNOWN it proceeds to the pods, whatever the cluster's name
\* or the other text of the error.
\* Does not hold: the decision is a substring test on the text of the error,
\* which holds the cluster's name and need not hold the symbol.
C17_InitialHealthFailsIffRedOrUnreachable ==
    [][(crsm.pc = "INITIAL_HEALTH_EXCEPT" /\ crsm'.pc # "INITIAL_HEALTH_EXCEPT") =>
          /\ (record'.returned /\ record'.error = "initial_health")
                <=> crsm.observed \in {"RED", "UNREACHABLE"}
          /\ record'.returned => \A p \in Pods : ~Started(p)'
      ]_vars

\* C18: a suspended cluster is invalid, and its run ends with a failure
\* before any health gate, decommission or delete_pod; warnings alone (health
\* not GREEN, no pre-stop hook, no decommission utility) never make a
\* descriptor invalid, and a valid cluster's run ends at validation only when
\* the activity's attempts are used up.
C18_SuspendedStopsWarningsDoNot ==
    /\ [](/\ \A c \in Descriptors, skip_hook_warning \in BOOLEAN :
              LET r == ClusterValidationResult(c, skip_hook_warning)
              IN /\ r.is_valid <=> ~c.suspended
                 /\ r.is_valid <=> r.errors = {}
          /\ cluster.suspended =>
               /\ crsm.pc \in {"START", "MAINTENANCE_CHECK", "VALIDATION",
                                "RETURNED"}
               /\ hc = NewHealthCheck
               /\ \A p \in Pods : ~Started(p)
               /\ record.returned =>
                    /\ ~record.success
                    /\ record.error \in {"maintenance", "validation"})
    /\ [][(crsm.pc = "VALIDATION" /\ crsm'.pc # "VALIDATION") =>
            IF cluster.suspended
            THEN record'.returned /\ record'.error = "validation"
            ELSE \/ crsm'.pc = "INITIAL_HEALTH"
                 \/ crsm.attempt >= MaxAttemptsApiCalls
         ]_vars

\* The run of a suspended cluster has ended at validation, no pod touched.
C18_Witness ==
    /\ cluster.suspended
    /\ record.returned
    /\ ~record.success
    /\ record.error = "validation"
    /\ \A p \in Pods : ~Started(p)

\* The nodes of the mixed scenario: active, unschedulable, spot-terminating.
ActiveNode ==
    [assigned |-> TRUE, unschedulable |-> FALSE, taints |-> {}, annotations |-> {}]

UnschedulableNode == [ActiveNode EXCEPT !.unschedulable = TRUE]

SpotTerminatingNode ==
    [ActiveNode EXCEPT !.taints = {"aws.amazon.com/spot-instance-terminating"}]

ProbedTrue(p) == crsm.is_on_suspended_node[p] = "true"
ProbedFalseOrFailed(p) == crsm.is_on_suspended_node[p] \in {"false", "failed"}

\* C19: with only_on_suspended_nodes, a pod gets a pod-restart child iff the
\* probe returned true for it; a pod whose probe returned false or failed is
\* in skipped_pods and its child never enters any state; the probe is false
\* on an active node and true on an unschedulable and on a spot-terminating
\* one, and a run that succeeds uncancelled returns the pods probed true as
\* restarted_pods and the others as skipped_pods, both in list order.
C19_RestartIffOnSuspendedNode ==
    /\ ~is_pod_on_suspended_node(ActiveNode, FALSE)
    /\ is_pod_on_suspended_node(UnschedulableNode, FALSE)
    /\ is_pod_on_suspended_node(SpotTerminatingNode, FALSE)
    /\ \A node \in Nodes : ~is_pod_on_suspended_node(node, TRUE)
    /\ ~options.only_on_suspended_nodes =>
         /\ crsm.skipped_pods = <<>>
         /\ \A p \in Pods : crsm.is_on_suspended_node[p] = "none"
    /\ options.only_on_suspended_nodes =>
         /\ \A p \in Pods :
              /\ Started(p) <=> ProbedTrue(p)
              /\ ProbedFalseOrFailed(p) <=> p \in Range(crsm.skipped_pods)
              /\ ProbedFalseOrFailed(p) => pod[p] = NewPod
         /\ crsm.self_skipped_pods = crsm.skipped_pods
         /\ NoDuplicates(crsm.skipped_pods)
         /\ (record.returned /\ record.success /\ ~record.cancelled) =>
              /\ record.restarted_pods = SelectSeq(cluster.pods, ProbedTrue)
              /\ record.skipped_pods =
                    SelectSeq(cluster.pods, ProbedFalseOrFailed)

\* Of three pods the second was on a suspended node; the probe returned
\* false for the first and failed for the third.
C19_Witness ==
    /\ options.only_on_suspended_nodes
    /\ record.returned
    /\ record.success
    /\ record.restarted_pods = <<2>>
    /\ record.skipped_pods = <<1, 3>>
    /\ crsm.is_on_suspended_node = <<"false", "true", "failed">>

\* C20: once a pod that is not the last of cluster.pods has been restarted,
\* the inter-pod Health-Gate runs before the loop goes on, and a later pod's
\* child is started only after that gate returned GREEN; if the gate fails
\* the run ends with a failure and no later pod is started; no inter-pod gate
\* runs after a skipped pod, after a failed pod or after the last pod.
C20_InterPodGate ==
    \A p \in Pods :
        LET restarted == p \in Range(crsm.restarted_pods)
            last == PodIndex(p) = Len(cluster.pods)
            at_gate == /\ crsm.pc \in {"STABILIZE", "INTER_HEALTH"}
                       /\ crsm.current_pod = p
            Later(q) == PodIndex(q) > PodIndex(p)
        IN  /\ (restarted /\ ~last) =>
                 \/ at_gate
                 \/ crsm.inter_health[p] \in {"green", "failed"}
            /\ (restarted /\ ~last /\ crsm.inter_health[p] # "green") =>
                 \A q \in Pods : Later(q) =>
                     /\ ~Started(q)
                     /\ crsm.is_on_suspended_node[q] = "none"
            /\ crsm.inter_health[p] = "failed" =>
                 /\ crsm.pc = "RETURNED"
                 /\ record.returned
                 /\ ~record.success
                 /\ record.error = "inter_health"
                 /\ record.restarted_pods[Len(record.restarted_pods)] = p
            /\ at_gate => (restarted /\ ~last)
            /\ (~restarted \/ last) => crsm.inter_health[p] = "none"

\* The gate after the first pod returned GREEN, the second pod was restarted
\* and the gate after it failed: the third pod was never started.
C20_Witness ==
    /\ crsm.inter_health = <<"green", "failed", "none">>
    /\ record.returned
    /\ record.restarted_pods = <<1, 2>>
    /\ ~Started(3)

\* C21: the final Health-Gate runs iff restarted_pods is non-empty when the
\* pod loop ends, after a cancel too; a run that restarted a pod returns
\* success only if that gate returned GREEN, and a failure of the gate is
\* the failure of the run.
C21_FinalHealthIffRestarted ==
    /\ crsm.final_health # "none" => crsm.restarted_pods # <<>>
    /\ crsm.pc = "FINAL_HEALTH" <=> crsm.final_health = "running"
    /\ record.returned =>
         /\ record.error = NoError =>
              IF record.restarted_pods # <<>>
              THEN crsm.final_health = "green"
              ELSE crsm.final_health = "none"
         /\ record.error = "final_health" <=> crsm.final_health = "failed"
         /\ record.error \notin {NoError, "final_health"} =>
              crsm.final_health = "none"
         /\ (record.success /\ record.restarted_pods # <<>>) =>
              crsm.final_health = "green"

\* A cancelled run that had restarted a pod ran the final gate.
C21_Witness ==
    /\ record.returned
    /\ record.cancelled
    /\ record.restarted_pods = <<1>>
    /\ crsm.final_health = "green"

\* C22: with dry_run set, no pod delete is issued and no SQL statement is
\* executed in any pod, with and without has_dc_util, while a pod restart
\* that succeeds has walked the states of a real run.
\* Does not hold: reset_cluster_routing_allocation does not read dry_run and
\* sends its statement on a cluster without has_dc_util.
C22_DryRunMutatesNothing ==
    options.dry_run =>
        \A p \in Pods :
            /\ ~pod[p].delete_issued
            /\ ~pod[p].sql_executed
            /\ (pod[p].pc = "RETURNED" /\ pod[p].success) =>
                 /\ IsPrefix(<<"HEALTH_CHECK", "DECOMMISSION", "DELETE",
                               "WAIT_READY">>, pod[p].states)
                 /\ Entered(p, "RESET_ROUTING") <=> ~cluster.has_dc_util
                 /\ Entered(p, "COMPLETE")

\* C23: the clusters are restarted one after another in discovery order, a
\* child being started only after the one before it has ended; whether a
\* child returns success=false or fails, every discovered cluster gets its
\* child and the returned record holds the result of every child that
\* returned one.
\* Does not hold: a child that fails makes the await raise into the except
\* clause, which returns a record without results and starts no further
\* child.
C23_SequentialAndIsolated ==
    /\ \A c \in 1..MaxClusters :
         /\ multi.child[c] # "not_started" => c \in Range(multi.clusters)
         /\ (c > 1 /\ multi.child[c] # "not_started") =>
              multi.child[c - 1] \in {"success", "failure", "raised"}
    /\ (multi.pc = "RETURNED" /\ multi.clusters # <<>>) =>
         \A c \in Range(multi.clusters) :
             /\ multi.child[c] \in {"success", "failure", "raised"}
             /\ multi.child[c] \in {"success", "failure"} =>
                  \E i \in DOMAIN multi.result.results :
                      /\ multi.result.results[i].cluster = c
                      /\ multi.result.results[i].success
                            <=> multi.child[c] = "success"

\* C24: each signal handler is idempotent (applied twice with the same
\* argument it leaves what one application leaves); force_restart_signal and
\* cancel_signal, once true, stay true to the end of the run; pause_signal
\* is set by pause_restart, cleared by resume_restart and changed by nothing
\* else, so it tells which of the two was received last.
C24_SignalsAreIdempotentLatches ==
    /\ [](/\ \A reason \in Reasons \cup {"planned"} :
              LET w == on_force_restart(crsm, reason)
              IN  /\ on_force_restart(w, reason) = w
                  /\ w.force_restart_signal
                  /\ w.force_restart_reason = reason
          /\ on_pause_restart(on_pause_restart(crsm)) = on_pause_restart(crsm)
          /\ on_resume_restart(on_resume_restart(crsm)) = on_resume_restart(crsm)
          /\ on_cancel_restart(on_cancel_restart(crsm)) = on_cancel_restart(crsm)
          /\ on_pause_restart(crsm).pause_signal
          /\ ~on_resume_restart(crsm).pause_signal
          /\ on_resume_restart(on_pause_restart(crsm)) = on_resume_restart(crsm)
          /\ on_pause_restart(on_resume_restart(crsm)) = on_pause_restart(crsm)
          /\ on_cancel_restart(crsm).cancel_signal)
    /\ [][/\ crsm.force_restart_signal => crsm'.force_restart_signal
          /\ crsm.cancel_signal => crsm'.cancel_signal
          /\ crsm'.pause_signal # crsm.pause_signal =>
               crsm' = IF crsm.pause_signal THEN on_resume_restart(crsm)
                       ELSE on_pause_restart(crsm)
         ]_vars

\* A run that was paused, forced and cancelled has returned with the three
\* flags still set.
C24_Witness ==
    /\ record.returned
    /\ crsm.force_restart_signal
    /\ crsm.cancel_signal
    /\ crsm.pause_signal
    /\ crsm.pods_completed # <<>>

C26_FiveStatementsInOrderStopAtFailure ==
    /\ (md.has_dc_util \/ md.dry_run) => md.issued = <<>>
    /\ IsPrefix(md.issued, sql_commands)
    /\ (md.result = "success" /\ ~md.has_dc_util /\ ~md.dry_run) =>
         md.issued = sql_commands
    /\ \A i \in DOMAIN md.outcomes :
         md.outcomes[i] # "accepted" => Len(md.issued) = i

\* C27: without has_dc_util (and not in dry-run) decommission_pod reports
\* success only after the decommission statement was accepted and PID 1 has
\* exited.
\* Does not hold: when curl fails on the decommission statement the command
\* exits with curl's status, the exec returns and success is reported.
C27_SuccessOnlyAfterProcessExit ==
    (md.result = "success" /\ ~md.has_dc_util /\ ~md.dry_run) =>
        /\ Len(md.outcomes) = NumSqlCommands
        /\ md.outcomes[NumSqlCommands] = "accepted"
        /\ md.pid1_exited

\* C28: a failing decommission_pod attempt is re-attempted until one
\* succeeds or 3 attempts were made (2 with has_dc_util): the attempts never
\* exceed that number, and the DECOMMISSION state fails the pod restart only
\* at the last of them.
\* Does not hold: decommission_pod catches its errors and returns
\* success=False, which the policy does not retry; the state fails at the
\* first attempt.
C28_DecommissionFailsOnlyWhenExhausted ==
    [][\A p \in Pods :
          /\ pod[p].pc = "DECOMMISSION" =>
               pod[p].attempt \in 1..create_activity_config("decommission", cluster)
          /\ (pod[p].pc = "DECOMMISSION" /\ pod'[p].pc = "RETURNED") =>
               pod[p].attempt = create_activity_config("decommission", cluster)
      ]_vars

\* C29: when wait_for_pod_ready meets phase Failed or Succeeded, the
\* WAIT_READY state fails at that attempt with a non-retryable error; the
\* activity neither goes on polling nor is re-attempted.
\* Does not hold: the error raised for the phase is caught by the polling
\* loop's own except clause and counted, the loop polls on, and the
\* TimeoutError (or plain Exception) that ends the attempt is retryable.
C29_TerminalPhaseIsNotRetried ==
    wr.terminal_attempt # 0 =>
        /\ wr.pc = "FAILED"
        /\ wr.attempt = wr.terminal_attempt
        /\ wr.raised \in NonRetryablePodOperations

\* C30: wait_for_pod_ready returns only when the polls of the last 20 s
\* (five polls, 5 s apart) all met phase Running with a Ready condition of
\* status True; an attempt that does not return fails with a timeout or
\* with the third error in a row.
\* Does not hold: a Running pod without a Ready condition counts as ready.
C30_ReadyForTwentySeconds ==
    /\ wr.pc = "RETURNED" =>
         wr.ready_polls * PollInterval >= min_ready_duration + PollInterval
    /\ wr.pc = "FAILED" => wr.raised \in {"TimeoutError", "Exception"}
    /\ wr.now <= PodReadyTimeout

\* C31: the reset statement goes to the target pod first and to the other
\* pods of cluster.pods, in list order and without the target, only after
\* it failed on every pod before; once the statement succeeded on a pod the
\* routine returns and contacts no later pod; when the call on a pod fails
\* it goes on to the next pod, and it raises only after the last pod, when
\* the statement succeeded on none.
C31_TargetFirstThenFallbacksUntilSuccess ==
    LET others == SelectSeq(rs.pods, LAMBDA p : p # rs.pod_name)
        order == <<rs.pod_name>> \o others
        n == Len(rs.contacted)
    IN  rs.pc # "IDLE" =>
          /\ IsPrefix(rs.contacted, order)
          /\ \A k \in 1..(n - 1) : rs.outcomes[k] # "accepted"
          /\ (n >= 1 /\ rs.outcomes[n] = "accepted") => rs.pc = "RETURNED"
          /\ (n >= 1 /\ rs.outcomes[n] = "raised") =>
               rs.pc = IF n < Len(order) THEN "EXEC" ELSE "RAISED"
          /\ rs.pc = "RAISED" =>
               /\ rs.contacted = order
               /\ \A k \in 1..n : rs.outcomes[k] # "accepted"

\* The target is the second pod of three; the calls on it and on the first
\* pod failed and the statement succeeded on the third.
C31_Witness ==
    /\ rs.pc = "RETURNED"
    /\ Len(rs.pods) = 3
    /\ rs.pod_name = rs.pods[2]
    /\ rs.contacted = <<rs.pods[2], rs.pods[1], rs.pods[3]>>
    /\ rs.outcomes = <<"raised", "raised", "accepted">>

\* C32: delete_pod is idempotent under retry: an attempt made after the pod
\* was already deleted, whose delete call is answered 404, returns success
\* and does not raise.
C32_DeleteAnswered404Succeeds ==
    (kp.attempt >= 1 /\ kp.answer = "404" /\ kp.deleted # {})
        => kp.result = "returned"

\* C33: check_maintenance_window answers should_wait = false when no config
\* path is given, when the configuration has no entry or no windows for the
\* cluster, when the time is inside a window and whenever loading or
\* evaluating the configuration raises; in every other case, windows
\* configured and the time outside all of them, it answers should_wait =
\* true, however near the next window is.
C33_ShouldWaitIffOutsideConfiguredWindows ==
    mw.pc = "RETURNED" =>
      LET i == mw.input_data
          inside == \E k \in DOMAIN i.config.windows :
                      IsTimeInWindow(i.day, i.slot, i.config.windows[k])
          proceeds == \/ ~i.config_path
                      \/ i.raises # "none"
                      \/ ~i.config.has_entry
                      \/ i.config.windows = <<>>
                      \/ inside
      IN  mw.result.should_wait = ~proceeds

\* Windows are configured, the time is outside all of them and the next
\* window opens one slot later: the answer is to wait.
C33_Witness ==
    /\ mw.pc = "RETURNED"
    /\ mw.input_data.raises = "none"
    /\ mw.result.should_wait
    /\ mw.result.reason = "upcoming"
    /\ mw.result.next_window_start = Instant(mw.input_data.day, mw.input_data.slot) + 1

\* C34: for a cluster with configured windows should_wait_for_maintenance_window
\* returns true if and only if the time is not inside any window, whether
\* the next window start is less than, exactly or more than
\* min_window_duration away, or absent.
C34_WaitWheneverOutside ==
    (/\ mw.pc = "RETURNED"
     /\ mw.input_data.config_path /\ mw.input_data.raises = "none"
     /\ mw.input_data.config.has_entry
     /\ mw.input_data.config.windows # <<>>) =>
      LET i == mw.input_data
          decision == should_wait_for_maintenance_window(i.config, i.day, i.slot)
          inside == \E k \in DOMAIN i.config.windows :
                      IsTimeInWindow(i.day, i.slot, i.config.windows[k])
      IN  /\ decision.should_wait = ~inside
          /\ mw.result.should_wait = decision.should_wait

\* Outside the windows, with the next window start nearer than
\* min_window_duration: the answer is to wait.
C34_Witness ==
    /\ mw.pc = "RETURNED"
    /\ mw.input_data.raises = "none"
    /\ mw.input_data.config.min_window_duration = 2
    /\ mw.result.next_window_start = Instant(mw.input_data.day, mw.input_data.slot) + 1
    /\ ~mw.result.in_maintenance_window
    /\ mw.result.should_wait

\* C34 as stated: true if and only if not inside a window and the next
\* window start is at least min_window_duration away or absent; false when
\* the next window starts in less than min_window_duration.
C34_AsStated ==
    (/\ mw.pc = "RETURNED"
     /\ mw.input_data.config_path /\ mw.input_data.raises = "none"
     /\ mw.input_data.config.has_entry
     /\ mw.input_data.config.windows # <<>>) =>
      LET i == mw.input_data
          now == Instant(i.day, i.slot)
          next == get_next_maintenance_window(i.config, i.day, i.slot)
          inside == \E k \in DOMAIN i.config.windows :
                      IsTimeInWindow(i.day, i.slot, i.config.windows[k])
      IN  should_wait_for_maintenance_window(i.config, i.day, i.slot).should_wait
            = (/\ ~inside
               /\ \/ next = NoInstant
                  \/ next - now >= i.config.min_window_duration)

\* C35: every pod restart the multi-cluster orchestrator performs on a
\* cluster without dc_util is followed by reset_cluster_routing_allocation:
\* its per-cluster workflow has invoked the reset once a pod was restarted
\* and before it restarts the next pod or returns the cluster's result.
C35_OrchestratorResetsAfterEachRestart ==
    (/\ ~lw.has_dc_util /\ ~lw.dry_run
     /\ \E k \in DOMAIN lw.restarted_pods :
          lw.pc = "RETURNED" \/ lw.i > lw.restarted_pods[k]) =>
      "reset_cluster_routing_allocation" \in lw.invoked

C37_MultiResultCountsAddUp ==
    multi.result.returned =>
      /\ multi.result.total_clusters
           = multi.result.successful_clusters + multi.result.failed_clusters
      /\ multi.result.total_clusters = Len(multi.result.results)

\* C38: WAIT_READY succeeds only for the replacement pod: after delete_pod
\* issued the delete, wait_for_pod_ready returns success only on a pod
\* object of that name that was created after the delete, never on the
\* deleted object that is still Running and Ready while it terminates.
C38_ReadyOnlyForReplacementPod ==
    (kp.pc = "RETURNED" /\ ~kp.dry_run) => kp.stable_uid \notin kp.deleted

\* C39: a pause that is neither resumed nor cancelled within 24 hours ends
\* the run: the wait times out and run() returns a record with
\* success = false, cancelled = false and an error; the pending pod and the
\* pods after it are not restarted, and the wait does not end as if it had
\* been resumed.
C39_PauseTimeoutEndsTheRun ==
    /\ []((record.returned /\ record.error = "pause") =>
            /\ ~record.success
            /\ ~record.cancelled
            /\ record.error # NoError
            /\ crsm.i \in DOMAIN cluster.pods
            /\ \A k \in crsm.i..Len(cluster.pods) :
                 /\ ~Started(cluster.pods[k])
                 /\ cluster.pods[k] \notin Range(record.restarted_pods))
    /\ [][(/\ crsm.pc = "PAUSED" /\ crsm'.pc # "PAUSED"
           /\ crsm.pause_signal /\ ~crsm.cancel_signal) =>
            /\ crsm'.pc = "RETURNED"
            /\ record'.returned /\ record'.error = "pause"
            /\ pod' = pod]_vars

\* The run was paused before its second pod and the pause timed out.
C39_Witness ==
    /\ record.returned
    /\ record.error = "pause"
    /\ Len(record.restarted_pods) = 1
    /\ crsm.i = 2

\* C40: within one run the Kubernetes delete takes effect at most once per
\* pod, also when delete_pod is attempted again under its retry policy after
\* an attempt whose delete was carried out but whose result was lost: only
\* the pod object that existed when the DELETE state was entered is ever
\* deleted, never the recreated pod of the same name.
C40_DeleteTakesEffectOnce ==
    /\ Cardinality(kp.deleted) <= 1
    /\ kp.deleted \subseteq {NewPodObject.uid}

====
